---- MODULE Spec2Model ----
(***************************************************************************)
(* Model of the chess rules engine of src/src/chess.rs: the Game record,   *)
(* the pseudo-legal evaluator is_legal_checkless, the full evaluator       *)
(* is_legal_move, the detectors is_in_check / is_in_checkmate / is_draw /  *)
(* is_stalemate, the generator all_legal_moves and move application        *)
(* (move_unchecked, move_checked).  A game is played from Game::default()  *)
(* by calls of move_checked, as play_game in src/src/main.rs does.         *)
(* A later part models the loop of play_game itself, with its promotion    *)
(* chooser, and the worker thread of ThreadedUci in src/src/uci.rs.        *)
(***************************************************************************)
EXTENDS Integers, Sequences, FiniteSets, TLC

VARIABLES
  board, en_passant, castle, turn, hm_clock, fm_clock,  \* the fields of Game
  res,    \* what the last call of move_checked that changed the game returned
  prev,   \* the Game before that call
  last,   \* the squares <<from, to>> of that call
  hist,   \* the moves of the book applied so far, each <<from, to, promotion>>
  free,   \* TRUE once a move was chosen freely, after a game of the book
  input,  \* the position record handed to from_fen (no record while a game is played)
  decoded,\* what from_fen returned for it
  drawn,  \* Some(b) once is_draw was asked and returned b
  played, \* the number of moves move_checked has applied since Game::default()
  \* play_game (src/src/main.rs): its parameters and its locals
  two_player, player_color, flipped,
  selected_piece,    \* Some(square) while a piece is selected
  promotion_square,  \* Some(square) while the promotion chooser is open
  winner,            \* Some(colour) once a checkmate was seen
  draw,              \* TRUE once a stalemate or a draw was seen
  \* ThreadedUci (src/src/uci.rs)
  sender,    \* the messages sent to the worker and not yet received by it
  receiver,  \* the results sent by the worker and not yet taken by try_result
  worker,    \* Some(message) while the worker is inside uci.recommend_move
  sent,      \* the number of calls of recommend_move so far
  taken,     \* the requests whose results try_result has returned, in order
  got        \* the last call of try_result: what was ready and what it returned

\* the variables of play_game and of ThreadedUci
session == <<two_player, player_color, flipped, selected_piece, promotion_square,
             winner, draw, sender, receiver, worker, sent, taken, got>>

vars == <<board, en_passant, castle, turn, hm_clock, fm_clock, res, prev, last, hist, free,
          input, decoded, drawn, played, session>>

----------------------------------------------------------------------------
(* Piece, Color, Promotion, MoveResult, Option                              *)

Empty == "Empty"
WhitePieces == {"WPawn", "WKnight", "WBishop", "WRook", "WQueen", "WKing"}
BlackPieces == {"BPawn", "BKnight", "BBishop", "BRook", "BQueen", "BKing"}
Piece == WhitePieces \cup BlackPieces

White == "White"
Black == "Black"
Color == {White, Black}

\* impl Not for Color
Not(c) == IF c = White THEN Black ELSE White

\* Piece::color
color(p) == IF p \in WhitePieces THEN White ELSE Black

NoPromotion == "NoPromotion"
Promotion == {"Knight", "Bishop", "Rook", "Queen"}

\* MoveResult::is_ok
OkResults == {"Valid", "Check", "Checkmate", "Stalemate", "Draw"}
\* the three results for which move_checked leaves the game alone
Rejected == {"MissingPromotion", "Illegal", "Impossible"}
\* Option::unwrap on None aborts the program; it is an outcome of its own
Panic == "Panic"
is_ok(r) == r \in OkResults

\* Option<T>: None is the empty sequence, Some(x) the one-element sequence
None == << >>
Some(x) == << x >>

Squares == 0 .. 63

Abs(x) == IF x < 0 THEN -x ELSE x
signum(x) == IF x > 0 THEN 1 ELSE IF x < 0 THEN -1 ELSE 0

IsKing(p) == p = "WKing" \/ p = "BKing"
IsPawn(p) == p = "WPawn" \/ p = "BPawn"
IsKnight(p) == p = "WKnight" \/ p = "BKnight"
IsSlider(p) == p \in {"WBishop", "WRook", "WQueen", "BBishop", "BRook", "BQueen"}

\* Piece::can_move
can_move(p, rx, ry) ==
  CASE IsPawn(p) -> TRUE
    [] IsKnight(p) -> (Abs(rx) = 2 /\ Abs(ry) = 1) \/ (Abs(ry) = 2 /\ Abs(rx) = 1)
    [] p \in {"WBishop", "BBishop"} -> Abs(rx) = Abs(ry)
    [] p \in {"WRook", "BRook"} -> (rx = 0 /\ ry # 0) \/ (rx # 0 /\ ry = 0)
    [] IsKing(p) -> Abs(rx) <= 1 /\ Abs(ry) <= 1
    [] OTHER -> (rx = 0 /\ ry # 0) \/ (rx # 0 /\ ry = 0) \/ Abs(rx) = Abs(ry)

\* a promotion that always gives a queen
from_promotion_queen(prm, c) == IF c = White THEN "WQueen" ELSE "BQueen"

\* Piece::from_promotion
from_promotion(prm, c) ==
  CASE prm = "Knight" -> IF c = White THEN "WKnight" ELSE "BKnight"
    [] prm = "Bishop" -> IF c = White THEN "WBishop" ELSE "BBishop"
    [] prm = "Rook"   -> IF c = White THEN "WRook" ELSE "BRook"
    [] OTHER          -> IF c = White THEN "WQueen" ELSE "BQueen"

\* Board::default
BackRank(c) ==
  IF c = White
  THEN <<"WRook", "WKnight", "WBishop", "WQueen", "WKing", "WBishop", "WKnight", "WRook">>
  ELSE <<"BRook", "BKnight", "BBishop", "BQueen", "BKing", "BBishop", "BKnight", "BRook">>

DefaultBoard ==
  [s \in Squares |->
     CASE s <= 7  -> BackRank(White)[s + 1]
       [] s <= 15 -> "WPawn"
       [] s <= 47 -> Empty
       [] s <= 55 -> "BPawn"
       [] OTHER   -> BackRank(Black)[s - 55]]

\* CastleFlags
CastleALL == {"WK", "WQ", "BK", "BQ"}

\* Game::default
DefaultGame ==
  [board |-> DefaultBoard, en_passant |-> None, castle |-> CastleALL,
   turn |-> White, hm_clock |-> 0, fm_clock |-> 1]

\* a version of from_pawn_location that names the square the pawn leaves
from_pawn_location_origin(location) ==
  IF location \in (8 .. 15) \cup (48 .. 55) THEN Some(location) ELSE None

\* EnPassant::from_pawn_location: the EnPassant variant is held as its location()
from_pawn_location(location) ==
  IF location \in 8 .. 15 THEN Some(location + 8)
  ELSE IF location \in 48 .. 55 THEN Some(location - 8)
  ELSE None

\* EnPassant::pawn_lost_pos
pawn_lost_pos(loc) == loc + 8

----------------------------------------------------------------------------
(* Game::move_unchecked: the game after the move; the caller has seen that  *)
(* the origin square holds a piece (the code returns false otherwise).      *)

\* a version of forfeit that forgets the rook taken on its corner
forfeit_own_only(flags, lost1, lost2) == flags \ lost1

\* a version of forfeit that toggles the flags (^=) where the code clears them
forfeit_toggling(flags, lost1, lost2) ==
  LET toggle(c, l) == (c \ l) \cup (l \ c)
  IN toggle(toggle(flags, lost1), lost2)

\* self.castle -= flag, for the flags of the moved piece and then for the flag
\* of a rook taken on its corner: bitflags' -= is set difference
forfeit(flags, lost1, lost2) == (flags \ lost1) \ lost2

\* u8 / u16 arithmetic of the clocks
U8 == 256
U16 == 65536

\* a move_unchecked that reports success whatever the origin square holds
moved_always(g, from) == TRUE

\* the bool move_unchecked returns: false if the piece did not exist
moved(g, from) == g.board[from] # Empty

\* the rook's squares taken as on the king side whichever way the king goes
rook_squares_king_side(from, to) == <<from + 3, to - 1>>

\* let (rook_from, rook_to) = ... of move_unchecked: the rook's origin and
\* destination when the king castles from `from` to `to`
rook_squares(from, to) ==
  IF to % 8 > from % 8 THEN <<from + 3, to - 1>> ELSE <<from - 4, to + 1>>

move_unchecked(g, from, to, promotion) ==
  IF ~moved(g, from) THEN g
  ELSE
  LET piece == g.board[from]
      fm == IF g.turn = Black THEN (g.fm_clock + 1) % U16 ELSE g.fm_clock
      \* en passant: both offering and taking
      b1 == IF IsPawn(piece) /\ g.en_passant # None /\ g.en_passant[1] = to
            THEN [g.board EXCEPT ![pawn_lost_pos(g.en_passant[1])] = Empty]
            ELSE g.board
      offering == Abs(to - from) = 16 /\ from_pawn_location(from) # None
      ep == IF IsPawn(piece) /\ offering THEN from_pawn_location(from) ELSE None
      hm1 == IF IsPawn(piece) THEN 0 ELSE (g.hm_clock + 1) % U8
      \* forfeiting castling rights
      lost1 == CASE piece = "WRook" -> IF from = 0 THEN {"WQ"}
                                       ELSE IF from = 7 THEN {"WK"} ELSE {}
                 [] piece = "WKing" -> {"WK", "WQ"}
                 [] piece = "BRook" -> IF from = 56 THEN {"BQ"}
                                       ELSE IF from = 63 THEN {"BK"} ELSE {}
                 [] piece = "BKing" -> {"BK", "BQ"}
                 [] OTHER -> {}
      \* taking a rook also takes castling rights
      lost2 == IF b1[to] \in {"BRook", "WRook"}
               THEN CASE to = 0 -> {"WQ"} [] to = 7 -> {"WK"}
                      [] to = 56 -> {"BQ"} [] to = 63 -> {"BK"} [] OTHER -> {}
               ELSE {}
      hm == IF b1[to] # Empty THEN 0 ELSE hm1
      rook_from == rook_squares(from, to)[1]
      rook_to == rook_squares(from, to)[2]
      b2 == IF IsPawn(piece) /\ promotion # NoPromotion /\ (to >= 56 \/ to <= 7)
            THEN [b1 EXCEPT ![to] = from_promotion(promotion, g.turn)]
            ELSE IF IsKing(piece) /\ Abs((to % 8) - (from % 8)) = 2
            THEN [[[b1 EXCEPT ![to] = b1[from]]
                       EXCEPT ![rook_to] = b1[rook_from]]
                       EXCEPT ![rook_from] = Empty]
            ELSE [b1 EXCEPT ![to] = b1[from]]
  IN [board |-> [b2 EXCEPT ![from] = Empty],
      en_passant |-> ep,
      castle |-> forfeit(g.castle, lost1, lost2),
      turn |-> Not(g.turn),
      hm_clock |-> hm,
      fm_clock |-> fm]

----------------------------------------------------------------------------
(* Game::find_king, Game::is_legal_checkless, Game::is_in_check             *)

\* Game::find_king: the first square (lowest index) holding a king of `player`
find_king(g, player) ==
  LET ks == {p \in Squares : g.board[p] # Empty /\ color(g.board[p]) = player
                              /\ IsKing(g.board[p])}
  IN IF ks = {} THEN None ELSE Some(CHOOSE p \in ks : \A q \in ks : p <= q)

\* a path trace that looks at the first square after the origin only
PathSquaresFirst(from, to) ==
  LET ox == from % 8  oy == from \div 8
      nx == to % 8    ny == to \div 8
      rx == signum(nx - ox)  ry == signum(ny - oy)
      n == IF Abs(nx - ox) > Abs(ny - oy) THEN Abs(nx - ox) ELSE Abs(ny - oy)
  IN {(oy + k * ry) * 8 + (ox + k * rx) : k \in 1 .. (IF n > 1 THEN 1 ELSE 0)}

\* the squares the path trace of a bishop, rook or queen visits: strictly
\* between origin and destination (the pattern check has put them on a line)
PathSquares(from, to) ==
  LET ox == from % 8  oy == from \div 8
      nx == to % 8    ny == to \div 8
      rx == signum(nx - ox)  ry == signum(ny - oy)
      n == IF Abs(nx - ox) > Abs(ny - oy) THEN Abs(nx - ox) ELSE Abs(ny - oy)
  IN {(oy + k * ry) * 8 + (ox + k * rx) : k \in 1 .. (n - 1)}

\* a promotion test that forgets the rank: every pawn move needs a promotion
unpromoted_any_rank(piece, ny, promotion) ==
  IsPawn(piece) /\ promotion = NoPromotion

\* the promotion test of is_legal_checkless: a pawn reaches the farthest rank
\* (row ny) and the caller gave no promotion
unpromoted(piece, ny, promotion) ==
  /\ (piece = "BPawn" /\ ny = 0) \/ (piece = "WPawn" /\ ny = 7)
  /\ promotion = NoPromotion

RECURSIVE is_legal_checkless(_, _, _, _, _)

\* is_in_check with the enemy pawns left out
is_in_check_no_pawns(g, player) ==
  LET kpos == find_king(g, player)[1]
      game == [g EXCEPT !.turn = Not(player)]
  IN \E pos \in Squares :
       /\ g.board[pos] # Empty
       /\ color(g.board[pos]) # player
       /\ ~IsKing(g.board[pos])
       /\ ~IsPawn(g.board[pos])
       /\ is_legal_checkless(game, pos, kpos, "Queen", FALSE) = "Valid"

\* Game::is_in_check; find_king(player).unwrap() needs a king of `player`
is_in_check(g, player) ==
  LET kpos == find_king(g, player)[1]
      game == [g EXCEPT !.turn = Not(player)]
  IN \E pos \in Squares :
       /\ g.board[pos] # Empty
       /\ color(g.board[pos]) # player
       /\ ~IsKing(g.board[pos])
       \* promotion just in case check is from pawn about to promote
       /\ is_legal_checkless(game, pos, kpos, "Queen", FALSE) = "Valid"

\* a pawn free to move towards either end of the board
pawn_dir_either(piece, oy, ny) == TRUE

\* let dir = ... of is_legal_checkless: the move from row oy to row ny goes
\* up the board for a white pawn, down or along the row for a black one
pawn_dir(piece, oy, ny) == (ny - oy > 0) # (piece = "BPawn")

\* the castling arms with only the king's destination required to be empty
\* on the king side
CastleArmDestinationOnly(piece, dx) ==
  CASE piece = "BKing" /\ dx = 2  -> [flag |-> "BK", empty |-> {62}, kfrom |-> 60, kto |-> 61]
    [] piece = "BKing" /\ dx = -2 -> [flag |-> "BQ", empty |-> {57, 58, 59}, kfrom |-> 60, kto |-> 59]
    [] piece = "WKing" /\ dx = 2  -> [flag |-> "WK", empty |-> {6}, kfrom |-> 4, kto |-> 5]
    [] OTHER                      -> [flag |-> "WQ", empty |-> {1, 2, 3}, kfrom |-> 4, kto |-> 3]

\* the castling arm of is_legal_checkless: flag, squares that must be empty,
\* and the one-square king move tried for the transit square
CastleArm(piece, dx) ==
  CASE piece = "BKing" /\ dx = 2  -> [flag |-> "BK", empty |-> {61, 62}, kfrom |-> 60, kto |-> 61]
    [] piece = "BKing" /\ dx = -2 -> [flag |-> "BQ", empty |-> {57, 58, 59}, kfrom |-> 60, kto |-> 59]
    [] piece = "WKing" /\ dx = 2  -> [flag |-> "WK", empty |-> {5, 6}, kfrom |-> 4, kto |-> 5]
    [] OTHER                      -> [flag |-> "WQ", empty |-> {1, 2, 3}, kfrom |-> 4, kto |-> 3]

\* validates a move's legality (does not factor in checks/pins, except
\* castling, which validates no checks in path)
is_legal_checkless(g, from, to, promotion, king_check) ==
  IF from > 63 \/ to > 63 THEN "Impossible"
  ELSE IF g.board[from] = Empty THEN "Impossible"
  ELSE IF color(g.board[from]) # g.turn THEN "Impossible"
  ELSE
  LET piece == g.board[from]
      ox == from % 8  oy == from \div 8
      nx == to % 8    ny == to \div 8
      target == g.board[to]
  IN
  \* make sure move does not take own piece (or enemy king)
  IF target # Empty /\ (color(target) = g.turn \/ (king_check /\ target = "BKing"))
  THEN "Illegal"
  ELSE
  LET rx == Abs(nx - ox)
      ry == Abs(ny - oy)
      take == rx = 1 /\ ry = 1 /\ target # Empty
      enp == g.en_passant # None /\ g.en_passant[1] = to /\ rx = 1 /\ ry = 1
      regular == ry = 1 /\ rx = 0 /\ target = Empty
      occupied == g.board[(oy + signum(ny - oy)) * 8 + ox] # Empty \/ target # Empty
      first == ry = 2 /\ rx = 0
               /\ ((piece = "BPawn" /\ oy = 6) \/ (piece = "WPawn" /\ oy = 1))
               /\ ~occupied
      dir == pawn_dir(piece, oy, ny)
      pawn_bad == ~(take \/ enp \/ regular \/ first) \/ ~dir
      arm == CastleArm(piece, nx - ox)
      castling ==
        IF is_in_check(g, g.turn) THEN "Illegal"
        ELSE IF arm.flag \notin g.castle THEN "Illegal"
        ELSE IF \E s \in arm.empty : g.board[s] # Empty THEN "Illegal"
        ELSE IF is_in_check(move_unchecked(g, arm.kfrom, arm.kto, NoPromotion), g.turn)
             THEN "Illegal"
        ELSE "Valid"
      blocked == IsSlider(piece) /\ \E s \in PathSquares(from, to) : g.board[s] # Empty
      double_bad == Abs(ny - oy) = 2
                    /\ ((piece = "BPawn" /\ oy # 6) \/ (piece = "WPawn" /\ oy # 1))
  IN
  IF IsPawn(piece) /\ pawn_bad THEN "Illegal"
  ELSE IF ~IsPawn(piece) /\ IsKing(piece) /\ rx = 2 /\ ny = oy THEN castling
  ELSE IF ~IsPawn(piece) /\ ~can_move(piece, nx - ox, ny - oy) THEN "Illegal"
  ELSE IF blocked THEN "Illegal"
  ELSE IF double_bad THEN "Illegal"
  ELSE IF unpromoted(piece, ny, promotion) THEN "MissingPromotion"
  ELSE "Valid"

----------------------------------------------------------------------------
(* Game::all_legal_moves, Game::is_stalemate, Game::is_draw,                *)
(* Game::is_in_checkmate                                                    *)

\* the closure legal_move of all_legal_moves: pseudo-legal with the enemy
\* king capturable, and the mover is not in check afterwards
legal_move(g, loc, to) ==
  /\ is_legal_checkless(g, loc, to, "Queen", FALSE) = "Valid"
  /\ ~is_in_check(move_unchecked(g, loc, to, "Queen"), g.turn)

\* the closure test_move of all_legal_moves (to is an isize)
test_move(g, loc, to) == to >= 0 /\ legal_move(g, loc, to)

RECURSIVE Ray(_, _, _, _)
\* while test_move(ly * 8 + lx) { lx += rx; ly += ry; }: the squares pushed;
\* ly * 8 + lx advances by d = ry * 8 + rx with no test of the board edge
Ray(g, loc, to, d) ==
  IF test_move(g, loc, to) THEN {to} \cup Ray(g, loc, to + d, d) ELSE {}

BishopDirs == {9, 7, -9, -7}
RookDirs == {1, -1, 8, -8}
\* the knight's steps without the one of two ranks up and one file right
KnightStepsSeven == {15, -15, -17, 10, -6, -10, 6}
KnightSteps == {15, 17, -15, -17, 10, -6, -10, 6}
KingSteps == {1, -1, 8, -8, 7, 9, -7, -9, -2, 2}

\* Game::all_legal_moves: the squares of the returned Vec (the Vec may hold
\* a square twice; its order is not modelled)
all_legal_moves(g, loc) ==
  IF g.board[loc] = Empty THEN {}
  ELSE IF color(g.board[loc]) # g.turn THEN {}
  ELSE
  LET piece == g.board[loc]
      steps(S) == {loc + d : d \in {e \in S : test_move(g, loc, loc + e)}}
      rays(S) == UNION {Ray(g, loc, loc + d, d) : d \in S}
  IN CASE piece = "WPawn" -> steps({8, 16, 7, 9})
       [] piece = "BPawn" -> steps({-8, -16, -7, -9})
       [] IsKnight(piece) -> steps(KnightSteps)
       [] piece \in {"WBishop", "BBishop"} -> rays(BishopDirs)
       [] piece \in {"WRook", "BRook"} -> rays(RookDirs)
       [] piece \in {"WQueen", "BQueen"} -> rays(BishopDirs \cup RookDirs)
       [] OTHER -> steps(KingSteps)

\* Game::is_stalemate
is_stalemate(g) ==
  /\ ~is_in_check(g, g.turn)
  /\ \A pos \in Squares :
       (g.board[pos] # Empty /\ color(g.board[pos]) = g.turn)
         => all_legal_moves(g, pos) = {}

\* the half-move count at which is_draw reports the 50-move rule
DrawClock == 100

\* is_draw without the comparison of the two bishops' squares
is_draw_any_squares(g) ==
  LET pieces == {p \in Squares : g.board[p] # Empty}
      nk == {p \in pieces : ~IsKing(g.board[p])}
      bishops == {"BBishop", "WBishop"}
  IN \/ g.hm_clock = DrawClock
     \/ Cardinality(pieces) = 2
     \/ /\ Cardinality(pieces) = 3
        /\ \E p \in nk : /\ \A q \in nk : p <= q
                         /\ g.board[p] \in {"WKnight", "WBishop", "BKnight", "BBishop"}
     \/ /\ Cardinality(pieces) = 4
        /\ \E p, q \in nk :
             /\ p < q /\ \A r \in nk : p <= r /\ (r = p \/ q <= r)
             /\ g.board[p] \in bishops /\ g.board[q] \in bishops
             /\ color(g.board[p]) # color(g.board[q])

\* Game::is_draw
is_draw(g) ==
  LET pieces == {p \in Squares : g.board[p] # Empty}
      nk == {p \in pieces : ~IsKing(g.board[p])}
      bishops == {"BBishop", "WBishop"}
  IN \/ g.hm_clock = DrawClock
     \/ Cardinality(pieces) = 2
     \/ /\ Cardinality(pieces) = 3
        /\ \E p \in nk : /\ \A q \in nk : p <= q
                         /\ g.board[p] \in {"WKnight", "WBishop", "BKnight", "BBishop"}
     \/ /\ Cardinality(pieces) = 4
        /\ \E p, q \in nk :
             /\ p < q /\ \A r \in nk : p <= r /\ (r = p \/ q <= r)
             /\ g.board[p] \in bishops /\ g.board[q] \in bishops
             /\ color(g.board[p]) # color(g.board[q])
             /\ p % 2 = q % 2

\* usize::saturating_sub
saturating_sub(a, b) == IF a < b THEN 0 ELSE a - b

\* legal_move_wcheck without the test that the mover is out of check afterwards
legal_move_checkless(game, from, to) ==
  is_legal_checkless(game, from, to, "Queen", FALSE) = "Valid"

\* the closure legal_move_wcheck of is_in_checkmate
legal_move_wcheck(game, from, to) ==
  /\ is_legal_checkless(game, from, to, "Queen", FALSE) = "Valid"
  /\ ~is_in_check(move_unchecked(game, from, to, "Queen"), game.turn)

\* the squares is_in_checkmate inserts into threat_squares for the checking
\* piece on pos: while ox != nx && oy != ny { insert; ox += rx; oy += ry }
ThreatSquares(g, pos, kpos) ==
  LET ox == pos % 8   oy == pos \div 8
      nx == kpos % 8  ny == kpos \div 8
      rx == signum(nx - ox)  ry == signum(ny - oy)
  IN IF IsPawn(g.board[pos]) \/ IsKnight(g.board[pos]) THEN {pos}
     ELSE IF IsSlider(g.board[pos])
     THEN IF ox # nx /\ oy # ny
          THEN {(oy + k * ry) * 8 + (ox + k * rx) : k \in 0 .. (Abs(nx - ox) - 1)}
          ELSE {}
     ELSE {}

\* Game::is_in_checkmate
is_in_checkmate(g, player) ==
  LET kpos == find_king(g, player)[1]
      attack == [g EXCEPT !.turn = Not(player)]
      checkers == {pos \in Squares :
                     /\ g.board[pos] # Empty
                     /\ color(g.board[pos]) # player
                     /\ ~IsKing(g.board[pos])
                     /\ is_legal_checkless(attack, pos, kpos, "Queen", FALSE) = "Valid"}
      block_pos == {pos \in Squares :
                      /\ g.board[pos] # Empty
                      /\ color(g.board[pos]) = player
                      /\ ~IsKing(g.board[pos])}
      game == [g EXCEPT !.turn = player]
      king_to == {kpos + 1, saturating_sub(kpos, 1), kpos + 8, saturating_sub(kpos, 8),
                  saturating_sub(kpos, 9), saturating_sub(kpos, 7), kpos + 9, kpos + 7}
      threat_squares ==
        UNION {ThreatSquares(g, pos, kpos) : pos \in checkers}
          \cup (IF game.en_passant # None THEN {game.en_passant[1]} ELSE {})
      escapable ==
        \/ \E to \in king_to : legal_move_wcheck(game, kpos, to)
        \/ \E spos \in block_pos, ts \in threat_squares : legal_move_wcheck(game, spos, ts)
  IN ~escapable

----------------------------------------------------------------------------
(* Game::is_legal_move, Game::move_checked                                  *)

\* is_legal_move without the rejection of a move that leaves the mover's own
\* king in check
is_legal_move_no_self_check(g, from, to, promotion) ==
  LET r == is_legal_checkless(g, from, to, promotion, TRUE)
      n_board == move_unchecked(g, from, to, promotion)
  IN IF r # "Valid" THEN r
     ELSE IF is_draw(n_board) THEN "Draw"
     ELSE IF find_king(n_board, Not(g.turn)) = None THEN Panic
     ELSE IF ~is_in_check(n_board, Not(g.turn))
          THEN (IF is_stalemate(n_board) THEN "Stalemate" ELSE "Valid")
          ELSE (IF is_in_checkmate(n_board, Not(g.turn)) THEN "Checkmate" ELSE "Check")

\* is_legal_move with the draw looked for last, after stalemate, checkmate
\* and check
is_legal_move_draw_last(g, from, to, promotion) ==
  LET r == is_legal_checkless(g, from, to, promotion, TRUE)
      n_board == move_unchecked(g, from, to, promotion)
  IN IF r # "Valid" THEN r
     ELSE IF is_in_check(n_board, g.turn) THEN "Illegal"
     ELSE IF find_king(n_board, Not(g.turn)) = None THEN Panic
     ELSE IF ~is_in_check(n_board, Not(g.turn))
          THEN (IF is_stalemate(n_board) THEN "Stalemate"
                ELSE IF is_draw(n_board) THEN "Draw" ELSE "Valid")
          ELSE (IF is_in_checkmate(n_board, Not(g.turn)) THEN "Checkmate" ELSE "Check")

\* Game::is_legal_move.  n_board.is_in_check(!self.turn) unwraps the square of
\* the opponent's king: when the move has taken that king, the call panics.
is_legal_move(g, from, to, promotion) ==
  LET r == is_legal_checkless(g, from, to, promotion, TRUE)
      n_board == move_unchecked(g, from, to, promotion)
  IN IF r # "Valid" THEN r
     \* cannot play a move which puts self in check (or keeps self in check)
     ELSE IF is_in_check(n_board, g.turn) THEN "Illegal"
     ELSE IF is_draw(n_board) THEN "Draw"
     ELSE IF find_king(n_board, Not(g.turn)) = None THEN Panic
     ELSE IF ~is_in_check(n_board, Not(g.turn))
          THEN (IF is_stalemate(n_board) THEN "Stalemate" ELSE "Valid")
          ELSE (IF is_in_checkmate(n_board, Not(g.turn)) THEN "Checkmate" ELSE "Check")

\* a version of move_checked that returns early on Illegal and Impossible
\* only, and applies a move that lacks its promotion
move_checked_unpromoted(g, from, to, promotion) ==
  LET r == is_legal_move(g, from, to, promotion)
  IN IF r \in {"Illegal", "Impossible"} \/ r = Panic THEN g
     ELSE move_unchecked(g, from, to, promotion)

\* Game::move_checked: the game after the call
move_checked(g, from, to, promotion) ==
  LET r == is_legal_move(g, from, to, promotion)
  IN IF r \in Rejected \/ r = Panic THEN g
     ELSE move_unchecked(g, from, to, promotion)

----------------------------------------------------------------------------
(* FEN: Board::into_fen_board, Board::from_fen_board, Game::as_fen,         *)
(* Game::from_fen.  A string is the sequence of its characters, a character *)
(* a string of length one.                                                  *)

\* Piece::to_letter
to_letter(p) ==
  CASE p = "BPawn" -> "p" [] p = "BKnight" -> "n" [] p = "BBishop" -> "b"
    [] p = "BRook" -> "r" [] p = "BQueen" -> "q" [] p = "BKing" -> "k"
    [] p = "WPawn" -> "P" [] p = "WKnight" -> "N" [] p = "WBishop" -> "B"
    [] p = "WRook" -> "R" [] p = "WQueen" -> "Q" [] OTHER -> "K"

\* Piece::from_letter: None (here Empty, what the board holds for None) for a
\* character that is no piece letter
from_letter(c) ==
  CASE c = "p" -> "BPawn" [] c = "n" -> "BKnight" [] c = "b" -> "BBishop"
    [] c = "r" -> "BRook" [] c = "q" -> "BQueen" [] c = "k" -> "BKing"
    [] c = "P" -> "WPawn" [] c = "N" -> "WKnight" [] c = "B" -> "WBishop"
    [] c = "R" -> "WRook" [] c = "Q" -> "WQueen" [] c = "K" -> "WKing"
    [] OTHER -> Empty

DigitChars == <<"0", "1", "2", "3", "4", "5", "6", "7", "8", "9">>
is_ascii_digit(c) == \E i \in 1 .. 10 : DigitChars[i] = c
\* char as u8 - b'0', for a digit
DigitValue(c) == (CHOOSE i \in 1 .. 10 : DigitChars[i] = c) - 1

\* char as usize, for the characters an en-passant field is tried with
CharCode(c) ==
  CASE is_ascii_digit(c) -> 48 + DigitValue(c)
    [] c = "a" -> 97 [] c = "b" -> 98 [] c = "c" -> 99 [] c = "d" -> 100
    [] c = "e" -> 101 [] c = "f" -> 102 [] c = "g" -> 103 [] c = "h" -> 104
    [] c = "A" -> 65 [] c = "-" -> 45 [] c = "w" -> 119 [] c = "x" -> 120
    [] OTHER -> 63

FileChars == <<"a", "b", "c", "d", "e", "f", "g", "h">>

RECURSIVE to_string(_)
\* u8::to_string, u16::to_string
to_string(n) ==
  IF n < 10 THEN <<DigitChars[n + 1]>>
  ELSE to_string(n \div 10) \o <<DigitChars[(n % 10) + 1]>>

RECURSIVE ParseDigits(_, _)
ParseDigits(s, acc) ==
  IF s = << >> THEN acc ELSE ParseDigits(Tail(s), acc * 10 + DigitValue(Head(s)))

\* str::parse::<u8>() / ::<u16>() followed by .ok(): None for the empty
\* string, for a character that is no digit and for a number that does not
\* fit the type (max is its largest value)
parse(s, max) ==
  IF s = << >> \/ Len(s) > 6 \/ \E i \in 1 .. Len(s) : ~is_ascii_digit(s[i]) THEN None
  ELSE IF ParseDigits(s, 0) > max THEN None
  ELSE Some(ParseDigits(s, 0))

RECURSIVE split(_, _)
\* str::split(sep): the pieces between the separators, empty ones included
split(s, sep) ==
  IF \A i \in 1 .. Len(s) : s[i] # sep THEN <<s>>
  ELSE LET i == CHOOSE j \in 1 .. Len(s) : s[j] = sep /\ \A k \in 1 .. (j - 1) : s[k] # sep
       IN <<SubSeq(s, 1, i - 1)>> \o split(SubSeq(s, i + 1, Len(s)), sep)

RECURSIVE RowFen(_, _, _, _)
\* the inner loop of into_fen_board for the row that starts at ym, from file x
\* on, none_inr empty squares being pending
RowFen(b, ym, x, none_inr) ==
  LET pending == IF none_inr # 0 THEN <<DigitChars[none_inr + 1]>> ELSE << >>
  IN IF x = 8 THEN pending
     ELSE IF b[ym + x] # Empty
          THEN pending \o <<to_letter(b[ym + x])>> \o RowFen(b, ym, x + 1, 0)
          ELSE RowFen(b, ym, x + 1, none_inr + 1)

RECURSIVE RowsFen(_, _)
RowsFen(b, y) ==
  RowFen(b, y * 8, 0, 0) \o (IF y # 0 THEN <<"/">> \o RowsFen(b, y - 1) ELSE << >>)

\* Board::into_fen_board
into_fen_board(b) == RowsFen(b, 7)

RECURSIVE Flatten(_)
Flatten(ss) == IF ss = << >> THEN << >> ELSE Head(ss) \o Flatten(Tail(ss))

Reverse(ss) == [i \in 1 .. Len(ss) |-> ss[Len(ss) + 1 - i]]

RECURSIVE Expand(_)
\* the loop of from_fen_board: a digit pushes that many empty squares, any
\* other character pushes from_letter of it
Expand(cs) ==
  IF cs = << >> THEN << >>
  ELSE (IF is_ascii_digit(Head(cs))
        THEN [i \in 1 .. DigitValue(Head(cs)) |-> Empty]
        ELSE <<from_letter(Head(cs))>>) \o Expand(Tail(cs))

\* a version of from_fen_board that reads the rows in the order of the text
from_fen_board_unreversed(fen_board) ==
  LET vec == Expand(Flatten(split(fen_board, "/")))
  IN IF Len(vec) # 64 THEN None ELSE Some([sq \in Squares |-> vec[sq + 1]])

\* Board::from_fen_board
from_fen_board(fen_board) ==
  LET vec == Expand(Flatten(Reverse(split(fen_board, "/"))))
  IN IF Len(vec) # 64 THEN None ELSE Some([sq \in Squares |-> vec[sq + 1]])

\* EnPassant::from_take_location, the variant held as its location()
from_take_location(location) ==
  IF location \in (16 .. 23) \cup (40 .. 47) THEN Some(location) ELSE None

\* Game::as_fen
as_fen(g) ==
  LET flags == (IF "WK" \in g.castle THEN <<"K">> ELSE << >>)
               \o (IF "WQ" \in g.castle THEN <<"Q">> ELSE << >>)
               \o (IF "BK" \in g.castle THEN <<"k">> ELSE << >>)
               \o (IF "BQ" \in g.castle THEN <<"q">> ELSE << >>)
               \o (IF g.castle = {} THEN <<"-">> ELSE << >>)
      \* char::from(location % 8 + 'a'), char::from(location / 8 + '1')
      target == IF g.en_passant # None
                THEN <<FileChars[(g.en_passant[1] % 8) + 1],
                       DigitChars[(g.en_passant[1] \div 8) + 2]>>
                ELSE <<"-">>
  IN into_fen_board(g.board) \o <<" ">>
       \o <<IF g.turn = White THEN "w" ELSE "b">> \o <<" ">>
       \o flags \o <<" ">>
       \o target \o <<" ">>
       \o to_string(g.hm_clock) \o <<" ">>
       \o to_string(g.fm_clock)

\* the castling field of from_fen: the flags of the characters before the
\* first '-', other characters being skipped
CastleField(field) ==
  LET stop == IF \E i \in 1 .. Len(field) : field[i] = "-"
              THEN CHOOSE i \in 1 .. Len(field) :
                     field[i] = "-" /\ \A k \in 1 .. (i - 1) : field[k] # "-"
              ELSE Len(field) + 1
      flag(c) == CASE c = "K" -> {"WK"} [] c = "Q" -> {"WQ"}
                   [] c = "k" -> {"BK"} [] c = "q" -> {"BQ"} [] OTHER -> {}
  IN UNION {flag(field[i]) : i \in 1 .. (stop - 1)}

\* the position record of four to six fields lacks a field it needs
Absent == "Absent"

\* the en-passant field of from_fen: Absent when a `?` returns from from_fen,
\* Panic when a subtraction underflows in a build with overflow checks, and
\* otherwise the Option that from_take_location gives (the sums wrap in a
\* build without the checks, and the usize they wrap to is on the board only
\* if the sum over the integers is)
EnPassantField(field, overflow_checks) ==
  IF field = <<"-">> THEN None
  ELSE IF Len(field) < 1 THEN Absent
  ELSE IF overflow_checks /\ CharCode(field[1]) < 97 THEN Panic
  ELSE IF Len(field) < 2 THEN Absent
  ELSE IF overflow_checks /\ CharCode(field[2]) < 49 THEN Panic
  ELSE from_take_location((CharCode(field[2]) - 49) * 8
                            + (CharCode(field[1]) - 97))

\* Game::from_fen: None, Some(game), or Panic; overflow_checks tells the build
from_fen(fen, overflow_checks) ==
  LET parts == split(fen, " ")
  IN IF Len(parts) < 4 THEN None
     ELSE
     LET hm == IF Len(parts) >= 5 THEN parts[5] ELSE <<"0">>
         fm == IF Len(parts) >= 6 THEN parts[6] ELSE <<"1">>
         en_p == EnPassantField(parts[4], overflow_checks)
         b == from_fen_board(parts[1])
     IN IF en_p = Absent THEN None
        ELSE IF en_p = Panic THEN Panic
        ELSE IF b = None THEN None
        ELSE IF parse(hm, U8 - 1) = None THEN None
        ELSE IF parse(fm, U16 - 1) = None THEN None
        ELSE Some([board |-> b[1],
                   en_passant |-> en_p,
                   castle |-> CastleField(parts[3]),
                   turn |-> IF parts[2] = <<"w">> THEN White ELSE Black,
                   hm_clock |-> parse(hm, U8 - 1)[1],
                   fm_clock |-> parse(fm, U16 - 1)[1]])

----------------------------------------------------------------------------
(* The games played.  play_game calls move_checked with the squares the     *)
(* player picks; here the first moves follow one of the games below (each   *)
(* from the standard initial position) and then one more move is chosen     *)
(* among all squares, on the board or just beyond it, and all promotion     *)
(* choices.                                                                 *)

M(from, to) == <<from, to, NoPromotion>>
MP(from, to, promotion) == <<from, to, promotion>>

\* e2e4 d7d5 e4d5 d8d5 a2a3 d5e5
FileCheck ==
  <<M(12, 28), M(51, 35), M(28, 35), M(59, 35), M(8, 16), M(35, 36)>>

\* d2d4 e7e6 c1g5 f8b4
BishopCheck ==
  <<M(11, 27), M(52, 44), M(2, 38), M(61, 25)>>

\* e2e4 a7a6 e4e5 d7d5
EpWhite ==
  <<M(12, 28), M(48, 40), M(28, 36), M(51, 35)>>

\* a2a3 e7e5 a3a4 e5e4 d2d4
EpBlack ==
  <<M(8, 16), M(52, 36), M(16, 24), M(36, 28), M(11, 27)>>

\* d2d4 d7d5 e1d2 e8d7 d2c3 d7c6 c3b4 c6b5
KingsW ==
  <<M(11, 27), M(51, 35), M(4, 11), M(60, 51), M(11, 18), M(51, 42),
    M(18, 25), M(42, 33)>>

\* d2d4 d7d5 e1d2 e8d7 d2d3 d7c6 d3c3 c6b5 c3b4
KingsB ==
  <<M(11, 27), M(51, 35), M(4, 11), M(60, 51), M(11, 19), M(51, 42),
    M(19, 18), M(42, 33), M(18, 25)>>

\* h2h4 g7g5 h4g5 e7e6 g5g6 a7a6 g6h7 a6a5
Promo ==
  <<M(15, 31), M(54, 38), M(31, 38), M(52, 44), M(38, 46), M(48, 40),
    M(46, 55), M(40, 32)>>

\* h2h4 g7g5 h4g5 e7e6 g5g6 a7a6 g6h7 a6a5 d2d4 f8b4
PromoCheck ==
  <<M(15, 31), M(54, 38), M(31, 38), M(52, 44), M(38, 46), M(48, 40),
    M(46, 55), M(40, 32), M(11, 27), M(61, 25)>>

\* g2g3 b7b6 f1g2 c8a6 g1f3 e7e6 e2e4 h7h6
CastleAttacked ==
  <<M(14, 22), M(49, 41), M(5, 14), M(58, 40), M(6, 21), M(52, 44),
    M(12, 28), M(55, 47)>>

\* f2f3 e7e5 g2g4 d8h4
FoolsMate ==
  <<M(13, 21), M(52, 36), M(14, 30), M(59, 31)>>

\* g2g4 e7e6 g1f3 e8e7 f3d4 e7f6 f1g2 f6g5 g2e4 g5h4 e4d3 h4h3 a2a3 h3g2
CastleKing ==
  <<M(14, 30), M(52, 44), M(6, 21), M(60, 52), M(21, 27), M(52, 45),
    M(5, 14), M(45, 38), M(14, 28), M(38, 31), M(28, 19), M(31, 23),
    M(8, 16), M(23, 14)>>

\* e2e4 a7a5 d1h5 a8a6 h5a5 h7h5 h2h4 a6g6 a5c7 f7f6 c7d7 e8f7 d7b7 g6h6 e4e5 d8d3 b7b8 d3h7 b8c8 f7g6 e1e2 g6f7 e2e3 f7g6 e3f4 g6f7 e5e6 f7g6 f4f5
KingOnly ==
  <<M(12, 28), M(48, 32), M(3, 39), M(56, 40), M(39, 32), M(55, 39),
    M(15, 31), M(40, 46), M(32, 50), M(53, 45), M(50, 51), M(60, 53),
    M(51, 49), M(46, 47), M(28, 36), M(59, 19), M(49, 57), M(19, 55),
    M(57, 58), M(53, 46), M(4, 12), M(46, 53), M(12, 20), M(53, 46),
    M(20, 29), M(46, 53), M(36, 44), M(53, 46), M(29, 37)>>

\* e2e3 a7a5 d1h5 a8a6 h5a5 h7h5 h2h4 a6h6 a5c7 f7f6 c7d7 e8f7 d7b7 d8d3 b7b8 d3h7 b8c8 f7g6 c8e6
Loyd ==
  <<M(12, 20), M(48, 32), M(3, 39), M(56, 40), M(39, 32), M(55, 39),
    M(15, 31), M(40, 47), M(32, 50), M(53, 45), M(50, 51), M(60, 53),
    M(51, 49), M(59, 19), M(49, 57), M(19, 55), M(57, 58), M(53, 46),
    M(58, 44)>>

\* b2b3 g7g6 c1b2 a7a6 b2h8
RookTaken ==
  <<M(9, 17), M(54, 46), M(2, 9), M(48, 40), M(9, 63)>>

\* g1f3 g8f6 f3g1 f6g8, over and over: as many moves without a pawn move or
\* a capture as the half-move clock has values
KnightCycle == <<M(6, 21), M(62, 45), M(21, 6), M(45, 62)>>
Shuffle == [i \in 1 .. U8 |-> KnightCycle[((i - 1) % 4) + 1]]

\* 92 moves of the knights' cycle, then g1f3 g8f6 f3g1 b8c6 g1f3 c6b4 f3g1
\* b4d3: the hundredth move without a pawn move or a capture gives check
DrawCheck ==
  SubSeq(Shuffle, 1, 92)
    \o <<M(6, 21), M(62, 45), M(21, 6), M(57, 42), M(6, 21), M(42, 25), M(21, 6),
         M(25, 19)>>

\* d2d4 e7e6 g1f3 a7a6 e2e3 a6a5 f1d3 f8b4: White is in check with the right
\* to castle and nothing between king and rook
CastleInCheck ==
  <<M(11, 27), M(52, 44), M(6, 21), M(48, 40), M(12, 20), M(40, 32), M(5, 19),
    M(61, 25)>>

\* d2d4 d7d5 c1f4 c8f5 b1c3 b8c6 d1d2 d8d7 e1c1: White castles on the queen
\* side and Black may do the same
CastleQueenSide ==
  <<M(11, 27), M(51, 35), M(2, 29), M(58, 37), M(1, 18), M(57, 42), M(3, 11),
    M(59, 51), M(4, 2)>>

\* e2e4 e7e5 d1h5 b8c6 f1c4 g8f6 h5f7
ScholarsMate ==
  <<M(12, 28), M(52, 36), M(3, 39), M(57, 42), M(5, 26), M(62, 45), M(39, 53)>>

Book ==
  {FileCheck, BishopCheck, EpWhite, EpBlack, KingsW, KingsB, Promo, PromoCheck,
   CastleAttacked, FoolsMate, CastleKing, KingOnly, Loyd, RookTaken, Shuffle,
   ScholarsMate, DrawCheck, CastleInCheck, CastleQueenSide}

\* the largest index a caller passes: one beyond the board
MaxInput == 64

Inputs == 0 .. MaxInput
PromotionInputs == Promotion \cup {NoPromotion}

Game == [board |-> board, en_passant |-> en_passant, castle |-> castle,
         turn |-> turn, hm_clock |-> hm_clock, fm_clock |-> fm_clock]

NoResult == "NoResult"
NotCalled == "NotCalled"

\* the rules engine on its own: no window, no engine worker
NoSession ==
  /\ two_player = TRUE
  /\ player_color = White
  /\ flipped = FALSE
  /\ selected_piece = None
  /\ promotion_square = None
  /\ winner = None
  /\ draw = FALSE
  /\ sender = << >>
  /\ receiver = << >>
  /\ worker = None
  /\ sent = 0
  /\ taken = << >>
  /\ got = None

Init ==
  /\ board = DefaultGame.board
  /\ en_passant = DefaultGame.en_passant
  /\ castle = DefaultGame.castle
  /\ turn = DefaultGame.turn
  /\ hm_clock = DefaultGame.hm_clock
  /\ fm_clock = DefaultGame.fm_clock
  /\ res = NoResult
  /\ prev = DefaultGame
  /\ last = <<0, 0>>
  /\ hist = << >>
  /\ free = FALSE
  /\ input = << >>
  /\ decoded = NotCalled
  /\ drawn = None
  /\ played = 0
  /\ NoSession

SetGame(g) ==
  /\ board' = g.board
  /\ en_passant' = g.en_passant
  /\ castle' = g.castle
  /\ turn' = g.turn
  /\ hm_clock' = g.hm_clock
  /\ fm_clock' = g.fm_clock

\* self.hm_clock += 1 with the u8 at its largest value, in the move_unchecked
\* that is_legal_move (or the castling arm of is_legal_checkless) applies to a
\* scratch copy: the sum wraps in a build without overflow checks and panics
\* in a build with them
hm_overflows(g, from, to, promotion) ==
  /\ g.hm_clock = U8 - 1
  /\ from \in Squares /\ to \in Squares
  /\ g.board[from] # Empty /\ color(g.board[from]) = g.turn /\ ~IsPawn(g.board[from])
  /\ LET piece == g.board[from]
         arm == CastleArm(piece, (to % 8) - (from % 8))
     IN \/ is_legal_checkless(g, from, to, promotion, TRUE) = "Valid"
        \/ /\ IsKing(piece) /\ Abs((to % 8) - (from % 8)) = 2 /\ to \div 8 = from \div 8
           /\ (g.board[to] = Empty \/ (color(g.board[to]) # g.turn /\ g.board[to] # "BKing"))
           /\ ~is_in_check(g, g.turn)
           /\ arm.flag \in g.castle
           /\ \A sq \in arm.empty : g.board[sq] = Empty

\* one call game.move_checked(from, to, promotion) that returns an ok result
\* (the move is applied) or dies in an unwrap or an overflow check (the
\* program is over)
Called(from, to, promotion) ==
  LET r == is_legal_move(Game, from, to, promotion)
  IN \/ /\ is_ok(r)
        /\ SetGame(move_unchecked(Game, from, to, promotion))
        /\ res' = r
        /\ prev' = Game
        /\ last' = <<from, to>>
        /\ played' = played + 1
     \/ /\ r = Panic \/ hm_overflows(Game, from, to, promotion)
        /\ res' = Panic
        /\ last' = <<from, to>>
        /\ UNCHANGED <<board, en_passant, castle, turn, hm_clock, fm_clock, prev, played>>

\* one call that returns Illegal, Impossible or MissingPromotion: move_checked
\* returns before move_unchecked, and nothing changes
Refused(from, to, promotion) ==
  is_legal_move(Game, from, to, promotion) \in Rejected

IsPrefix(s, t) == Len(s) <= Len(t) /\ \A i \in 1 .. Len(s) : s[i] = t[i]

\* the next move of a game of the book
BookMove ==
  /\ res # Panic
  /\ ~free
  /\ UNCHANGED <<input, decoded, drawn, session>>
  /\ \E l \in Book :
       /\ Len(hist) < Len(l)
       /\ IsPrefix(hist, l)
       /\ LET m == l[Len(hist) + 1]
          IN \/ /\ Called(m[1], m[2], m[3])
                /\ hist' = (IF res' = Panic THEN hist ELSE Append(hist, m))
                /\ free' = free
             \/ Refused(m[1], m[2], m[3]) /\ UNCHANGED vars

\* a move chosen freely once a game of the book has been played
FreeMove ==
  /\ res # Panic
  /\ ~free
  /\ hist \in Book
  /\ UNCHANGED <<input, decoded, drawn, session>>
  /\ \/ \E from \in Inputs, to \in Inputs, promotion \in PromotionInputs :
            Called(from, to, promotion) /\ free' = TRUE /\ hist' = hist
     \/ /\ ~(\A from \in Inputs, to \in Inputs, promotion \in PromotionInputs :
               ~Refused(from, to, promotion))
        /\ UNCHANGED vars

Next == BookMove \/ FreeMove

Spec == Init /\ [][Next]_vars

----------------------------------------------------------------------------
(* A long game.  move_checked goes on accepting moves after a Draw, and in  *)
(* a build without overflow checks the half-move clock wraps (hm_clock += 1 *)
(* on a u8), so the knights' cycle g1f3 g8f6 f3g1 f6g8 can be repeated      *)
(* without end: every four moves the board is the initial one again, the    *)
(* half-move clock is four greater modulo 2^8 and the full-move counter two *)
(* greater.  The games of the book are played from the position after       *)
(* LongCycles repetitions of the cycle.                                     *)

\* the repetitions after which the full-move counter holds the largest u16
LongCycles == (U16 \div 2) - 1
LongPlayed == 4 * LongCycles

LongInit ==
  /\ board = DefaultGame.board
  /\ en_passant = None
  /\ castle = DefaultGame.castle
  /\ turn = White
  /\ hm_clock = LongPlayed % U8
  /\ fm_clock = 1 + 2 * LongCycles
  /\ res = NoResult
  /\ prev = DefaultGame
  /\ last = <<0, 0>>
  /\ hist = << >>
  /\ free = FALSE
  /\ input = << >>
  /\ decoded = NotCalled
  /\ drawn = None
  /\ played = LongPlayed
  /\ NoSession

LongSpec == LongInit /\ [][Next]_vars

----------------------------------------------------------------------------
(* Decoding position records.  from_fen is handed the record of a position  *)
(* (as as_fen builds it) and the same record with one field damaged or      *)
(* with its last fields missing.                                            *)

RECURSIVE Join(_)
\* the fields with one space between them
Join(fields) ==
  IF Len(fields) = 0 THEN << >>
  ELSE IF Len(fields) = 1 THEN fields[1]
  ELSE fields[1] \o <<" ">> \o Join(Tail(fields))

\* the positions whose records are decoded: the initial one, the one after
\* e2e4 (with an en-passant target and Black to move) and the one after
\* e2e4 e7e5 e1e2 (White's castling rights lost)
RecordedGames ==
  LET g1 == move_unchecked(DefaultGame, 12, 28, NoPromotion)
      g2 == move_unchecked(g1, 52, 36, NoPromotion)
      g3 == move_unchecked(g2, 4, 12, NoPromotion)
  IN {DefaultGame, g1, g3}

\* damaged fields: a board of 63, 65 and 72 squares and one of 64 squares with
\* a character that is no piece letter; sides to move other than w and b;
\* castling fields with other characters; en-passant fields that name no
\* square of rank 3 or 6; clocks that are no numbers or do not fit
BoardDefects(b) ==
  {Tail(b), b \o <<"1">>, [b EXCEPT ![1] = "9"], [b EXCEPT ![1] = "x"]}
TurnDefects == {<<"x">>, <<"W">>, <<"w", "b">>}
CastleDefects == {<<"x">>, <<"K", "x">>, <<"K", "Q", "x", "q">>}
EnPassantDefects ==
  {<<"e", "4">>, <<"e", "9">>, <<"e", "0">>, <<"A", "7">>, <<"x", "3">>, <<"e">>, <<"3", "e">>}
HalfMoveDefects == {<<"x">>, <<"1", "x">>, <<"2", "5", "6">>}
FullMoveDefects == {<<"x">>, <<"1", "x">>, <<"6", "5", "5", "3", "6">>}

\* the records made of the record of g
Records(g) ==
  LET f == split(as_fen(g), " ")
      damaged(i, D) == {Join([f EXCEPT ![i] = d]) : d \in D}
  IN {Join(f)}
       \cup damaged(1, BoardDefects(f[1]))
       \cup damaged(2, TurnDefects)
       \cup damaged(3, CastleDefects)
       \cup damaged(4, EnPassantDefects)
       \cup damaged(5, HalfMoveDefects)
       \cup damaged(6, FullMoveDefects)
       \cup {Join(SubSeq(f, 1, k)) : k \in 0 .. 5}

FenInputs == UNION {Records(g) : g \in RecordedGames}

FenInit ==
  /\ board = DefaultGame.board
  /\ en_passant = DefaultGame.en_passant
  /\ castle = DefaultGame.castle
  /\ turn = DefaultGame.turn
  /\ hm_clock = DefaultGame.hm_clock
  /\ fm_clock = DefaultGame.fm_clock
  /\ res = NoResult
  /\ prev = DefaultGame
  /\ last = <<0, 0>>
  /\ hist = << >>
  /\ free = FALSE
  /\ input \in FenInputs
  /\ decoded = NotCalled
  /\ drawn = None
  /\ played = 0
  /\ NoSession

\* one call Game::from_fen(input), in a build with or without overflow checks
Decode ==
  /\ decoded = NotCalled
  /\ \E overflow_checks \in BOOLEAN : decoded' = from_fen(input, overflow_checks)
  /\ UNCHANGED <<board, en_passant, castle, turn, hm_clock, fm_clock, res, prev, last,
                 hist, free, input, drawn, played, session>>

FenNext == Decode

FenSpec == FenInit /\ [][FenNext]_vars

----------------------------------------------------------------------------
(* Asking is_draw of positions with few pieces: the two kings on their home *)
(* squares and up to three more pieces.                                     *)

NonKings ==
  {"WPawn", "WKnight", "WBishop", "WRook", "WQueen",
   "BPawn", "BKnight", "BBishop", "BRook", "BQueen"}

\* the squares of the further pieces: c3 and e4 have even indices, d4 an odd one
ExtraSquares == {18, 27, 28}

\* the half-move clocks of the positions: a fresh one, the last one below
\* the 50-move rule, and the one at which the rule applies
ClockInputs == {0, DrawClock - 1, DrawClock}

Sparse(extra) ==
  [s \in Squares |->
     IF s = 4 THEN "WKing"
     ELSE IF s = 60 THEN "BKing"
     ELSE IF s \in ExtraSquares THEN extra[s]
     ELSE Empty]

DrawInit ==
  /\ \E extra \in [ExtraSquares -> NonKings \cup {Empty}] : board = Sparse(extra)
  /\ en_passant = None
  /\ castle = {}
  /\ turn \in {"White", "Black"}
  /\ hm_clock \in ClockInputs
  /\ fm_clock = 60
  /\ res = NoResult
  /\ prev = DefaultGame
  /\ last = <<0, 0>>
  /\ hist = << >>
  /\ free = FALSE
  /\ input = << >>
  /\ decoded = NotCalled
  /\ drawn = None
  /\ played = 0
  /\ NoSession

\* one call self.is_draw()
AskDraw ==
  /\ drawn = None
  /\ drawn' = Some(is_draw(Game))
  /\ UNCHANGED <<board, en_passant, castle, turn, hm_clock, fm_clock, res, prev, last,
                 hist, free, input, decoded, played, session>>

DrawNext == AskDraw

DrawSpec == DrawInit /\ [][DrawNext]_vars

----------------------------------------------------------------------------
(* play_game (src/src/main.rs) and ThreadedUci (src/src/uci.rs).  One game  *)
(* in the window: the main thread runs one iteration of play_game's loop    *)
(* per frame, the worker thread of ThreadedUci::new_delay receives a        *)
(* position, asks the engine and sends the result back.  The two channels   *)
(* are unbounded queues.  Squares are board squares: the conversion from    *)
(* the mouse position (yc, xc) is a bijection and is left out, as are the   *)
(* textures, sounds and animations.                                         *)

\* PROMOTIONS
PROMOTIONS == <<"Bishop", "Rook", "Knight", "Queen">>

\* the games played in the window: the parameters of play_game and the
\* moves the human and the engine follow

\* h2h4 g7g5 h4g5 e7e6 g5g6 a7a6 g6h7 a6a5 h7g8: the pawn takes on the last rank
PromoTakes == Promo \o <<MP(55, 62, "Queen")>>

\* h2h4 g7g5 h4g5 a7a6 g5g6 a6a5 g6h7 a5a4 h7g8: the same with the black
\* king left between its own pieces
PromoHemmed ==
  <<M(15, 31), M(54, 38), M(31, 38), M(48, 40), M(38, 46), M(40, 32),
    M(46, 55), M(32, 24), MP(55, 62, "Queen")>>

\* a2a3 h7h5 a3a4 h5h4 a4a5 h4h3 a5a6 h3g2 a6b7 g2h1: a black pawn takes on
\* its last rank, rank index 0
PromoBlack ==
  <<M(8, 16), M(55, 39), M(16, 24), M(39, 31), M(24, 32), M(31, 23),
    M(32, 40), M(23, 14), M(40, 49), MP(14, 7, "Queen")>>

\* the knights' cycle until the hundredth move without a pawn move or a
\* capture, Black's, and White's next move
FiftyMoves == SubSeq(Shuffle, 1, DrawClock + 1)

Sitting(two, human, flip, line) ==
  [two_player |-> two, player_color |-> human, flipped |-> flip, line |-> line]

PlayBook ==
  {Sitting(FALSE, White, FALSE, ScholarsMate),
   Sitting(FALSE, White, FALSE, FoolsMate),
   Sitting(FALSE, White, FALSE, Loyd),
   Sitting(FALSE, White, FALSE, PromoTakes),
   Sitting(FALSE, White, FALSE, PromoHemmed),
   Sitting(FALSE, Black, TRUE, FoolsMate),
   Sitting(FALSE, Black, TRUE, PromoBlack),
   Sitting(FALSE, Black, FALSE, FiftyMoves),
   Sitting(TRUE, White, FALSE, FoolsMate),
   Sitting(TRUE, Black, TRUE, PromoTakes)}

\* the lines of the book played with the parameters of this game
Lines ==
  {s.line : s \in {b \in PlayBook : /\ b.two_player = two_player
                                     /\ b.player_color = player_color
                                     /\ b.flipped = flipped}}

RECURSIVE After(_, _)
\* the position after the first n moves of a line
After(line, n) ==
  IF n = 0 THEN DefaultGame
  ELSE CHOOSE g \in {move_unchecked(p, line[n][1], line[n][2], line[n][3]) :
                        p \in {After(line, n - 1)}} : TRUE

\* the number of moves played to reach position g from Game::default()
HalfMoves(g) == 2 * (g.fm_clock - 1) + (IF g.turn = Black THEN 1 ELSE 0)

\* a reply of the engine that names no move of the position: what it sends
\* for a position without a legal move
NoMove == <<MaxInput, MaxInput, NoPromotion>>

\* Uci::recommend_move: what the engine process answers for position g.  It
\* plays the book; outside the book it has no move to give.
Answers(g) ==
  LET n == HalfMoves(g)
      replies == {l[n + 1] : l \in {k \in UNION {{b.line} : b \in PlayBook} :
                                       Len(k) > n /\ After(k, n) = g}}
  IN IF replies = {} THEN {NoMove} ELSE replies

\* Message::RecommendMove and ResultMessage::Result, numbered by the call of
\* recommend_move they belong to
Message(id, g) == [id |-> id, game |-> g]
ResultMessage(id, ret) == [id |-> id, ret |-> ret]

\* the locals of play_game and the channels, as one record
Now ==
  [game |-> Game, res |-> res, prev |-> prev, last |-> last, hist |-> hist,
   played |-> played, selected_piece |-> selected_piece,
   promotion_square |-> promotion_square, winner |-> winner, draw |-> draw,
   sender |-> sender, receiver |-> receiver, sent |-> sent, taken |-> taken,
   got |-> got]

\* the one element of a set of one element
The(S) == CHOOSE x \in S : TRUE

\* ThreadedUci::recommend_move
recommend_move(s, g) ==
  [s EXCEPT !.sender = Append(s.sender, Message(s.sent + 1, g)),
            !.sent = s.sent + 1]

\* the closure handle_move: winner and draw after a call that returned r and
\* left the game g
handle_move(s, r, g) ==
  IF ~is_ok(r) THEN s
  ELSE IF r = "Checkmate" THEN [s EXCEPT !.winner = Some(Not(g.turn))]
  ELSE IF r \in {"Stalemate", "Draw"} THEN [s EXCEPT !.draw = TRUE]
  ELSE s

\* what game.move_checked(from, to, promotion) returns, Panic if it dies
returned(g, from, to, promotion, overflow_checks) ==
  IF overflow_checks /\ hm_overflows(g, from, to, promotion) THEN Panic
  ELSE is_legal_move(g, from, to, promotion)

\* the game and the record of the call after game.move_checked(from, to,
\* promotion) has returned r
applied(s, from, to, promotion, r) ==
  IF r = Panic THEN [s EXCEPT !.res = Panic, !.last = <<from, to>>]
  ELSE IF ~is_ok(r) THEN s
  ELSE [s EXCEPT !.game = move_unchecked(s.game, from, to, promotion),
                 !.res = r, !.prev = s.game, !.last = <<from, to>>,
                 !.hist = Append(s.hist, <<from, to, promotion>>),
                 !.played = s.played + 1]

\* the engine's move m.ret, for which move_checked returned r
engine_move(s, m, r) ==
  \* assert!(res.is_ok(), ..)
  IF ~is_ok(r) THEN [s EXCEPT !.res = Panic, !.last = <<m.ret[1], m.ret[2]>>]
  ELSE The({handle_move(u, r, u.game) :
              u \in {applied(s, m.ret[1], m.ret[2], m.ret[3], r)}})

\* a try_result that leaves the result it returns in the channel
try_result_peek(s) ==
  IF s.receiver = << >>
  THEN [s EXCEPT !.got = Some([ready |-> 0, ret |-> None])]
  ELSE [s EXCEPT !.taken = Append(s.taken, Head(s.receiver).id),
                 !.got = Some([ready |-> Len(s.receiver),
                               ret |-> Some(Head(s.receiver))])]

\* ThreadedUci::try_result, and the record of the call
try_result(s) ==
  IF s.receiver = << >>
  THEN [s EXCEPT !.got = Some([ready |-> 0, ret |-> None])]
  ELSE [s EXCEPT !.receiver = Tail(s.receiver),
                 !.taken = Append(s.taken, Head(s.receiver).id),
                 !.got = Some([ready |-> Len(s.receiver),
                               ret |-> Some(Head(s.receiver))])]

\* the head of the loop: the engine's move, if its result has arrived
engine_turn(s, overflow_checks) ==
  IF ~(s.game.turn = Not(player_color) /\ ~two_player) THEN s
  ELSE IF s.receiver = << >> THEN try_result(s)
  ELSE The({engine_move(try_result(s), m, r) :
              m \in {Head(s.receiver)},
              r \in {returned(s.game, Head(s.receiver).ret[1], Head(s.receiver).ret[2],
                              Head(s.receiver).ret[3], overflow_checks)}})

\* the side of the chooser: promotions.insert(pos - of, piece) if TRUE,
\* promotions.insert(pos + of, piece) if not
chooser_down(s) ==
  LET c == color(s.game.board[s.promotion_square[1]])
  IN (c = White /\ ~flipped) \/ (c = Black /\ flipped)

\* pos - of below zero, of = 24, 16, 8, 0: the subtraction wraps (the key is
\* no square) in a build without overflow checks and panics in a build with
\* them
chooser_underflows(s) == chooser_down(s) /\ s.promotion_square[1] < 24

\* the HashMap promotions: <<square, piece>>
promotions(s) ==
  LET pos == s.promotion_square[1]
      c == color(s.game.board[pos])
  IN {<<(IF chooser_down(s) THEN pos - (32 - 8 * i) ELSE pos + (32 - 8 * i)),
        from_promotion(PROMOTIONS[i], c)>> : i \in 1 .. 4}

\* the choice taken: `if let Some(promotion) = promotions.remove(&c_pos)`
chosen(s, c_pos) ==
  LET pos == s.promotion_square[1]
      hit == {k \in promotions(s) : k[1] = c_pos}
  IN IF hit = {} THEN s
     ELSE [s EXCEPT !.game.board[pos] = The(hit)[2], !.promotion_square = None]

\* the tests after the click in the chooser
judged(s) ==
  IF is_in_checkmate(s.game, s.game.turn)
  THEN [s EXCEPT !.winner = Some(Not(s.game.turn))]
  ELSE IF is_in_check(s.game, s.game.turn) THEN s
  ELSE IF is_draw(s.game) \/ is_stalemate(s.game) THEN [s EXCEPT !.draw = TRUE]
  ELSE s

\* the promotion chooser, with the left button pressed on mouse[1] (None:
\* not pressed)
choose(s, mouse, overflow_checks) ==
  IF chooser_underflows(s) /\ overflow_checks THEN [s EXCEPT !.res = Panic]
  ELSE IF mouse = None THEN s
  ELSE The({judged(t) : t \in {chosen(s, mouse[1])}})

\* `game.board[pos].some_and(|x| x.color() == game.turn)`
own_piece(g, pos) == g.board[pos] # Empty /\ color(g.board[pos]) = g.turn

\* a test that lets a click select a piece whoever is to move
may_select_any_turn(g) == TRUE

\* the test that lets a click select a piece while none is selected
may_select(g) == g.turn = player_color \/ two_player

\* the click that moves the selected piece; move_checked(s_pos, e_pos, None)
\* returned r, and q is what it returns with Promotion::Queen
move_selected(s, s_pos, e_pos, r, q) ==
  IF r = Panic THEN applied(s, s_pos, e_pos, NoPromotion, r)
  ELSE IF is_ok(r)
  THEN The({[handle_move(u, r, u.game) EXCEPT !.selected_piece = None] :
              u \in {IF ~two_player THEN recommend_move(t, t.game) ELSE t :
                       t \in {applied(s, s_pos, e_pos, NoPromotion, r)}}})
  ELSE IF r = "MissingPromotion" /\ (is_ok(q) \/ q = Panic)
  THEN The({IF t.res = Panic THEN t
            ELSE [t EXCEPT !.game.board[e_pos] = s.game.board[s_pos],
                           !.promotion_square = Some(e_pos),
                           !.selected_piece = None] :
              t \in {applied(s, s_pos, e_pos, "Queen", q)}})
  ELSE [s EXCEPT !.selected_piece =
                   IF own_piece(s.game, e_pos) THEN Some(e_pos) ELSE None]

\* the left button pressed on square pos while the chooser is closed
click(s, pos, overflow_checks) ==
  IF s.selected_piece # None /\ ~s.draw /\ s.winner = None
  THEN The({move_selected(s, s.selected_piece[1], pos, r,
                          IF r = "MissingPromotion"
                          THEN returned(s.game, s.selected_piece[1], pos, "Queen",
                                        overflow_checks)
                          ELSE r) :
              r \in {returned(s.game, s.selected_piece[1], pos, NoPromotion,
                              overflow_checks)}})
  ELSE IF may_select(s.game)
  THEN (IF own_piece(s.game, pos) THEN [s EXCEPT !.selected_piece = Some(pos)] ELSE s)
  ELSE s

\* the body of the loop after its head
after_engine_turn(s, mouse, overflow_checks) ==
  IF s.res = Panic THEN s
  ELSE IF s.promotion_square # None THEN choose(s, mouse, overflow_checks)
  ELSE IF mouse = None THEN s
  ELSE click(s, mouse[1], overflow_checks)

\* where the human presses the button: on the squares of the next move of
\* the line, or in the chooser on its four squares and on one beside them
Clicks ==
  IF promotion_square # None
  THEN {c \in Squares : \E k \in 0 .. 4 : c = promotion_square[1] - 8 * k
                                          \/ c = promotion_square[1] + 8 * k}
  ELSE UNION {{l[Len(hist) + 1][1], l[Len(hist) + 1][2]} :
                l \in {k \in Lines : Len(k) > Len(hist) /\ IsPrefix(hist, k)}}

SetSession(s) ==
  /\ SetGame(s.game)
  /\ res' = s.res
  /\ prev' = s.prev
  /\ last' = s.last
  /\ hist' = s.hist
  /\ played' = s.played
  /\ selected_piece' = s.selected_piece
  /\ promotion_square' = s.promotion_square
  /\ winner' = s.winner
  /\ draw' = s.draw
  /\ sender' = s.sender
  /\ receiver' = s.receiver
  /\ sent' = s.sent
  /\ taken' = s.taken
  /\ got' = s.got

PlayInit ==
  /\ board = DefaultGame.board
  /\ en_passant = DefaultGame.en_passant
  /\ castle = DefaultGame.castle
  /\ turn = DefaultGame.turn
  /\ hm_clock = DefaultGame.hm_clock
  /\ fm_clock = DefaultGame.fm_clock
  /\ res = NoResult
  /\ prev = DefaultGame
  /\ last = <<0, 0>>
  /\ hist = << >>
  /\ free = FALSE
  /\ input = << >>
  /\ decoded = NotCalled
  /\ drawn = None
  /\ played = 0
  /\ \E b \in PlayBook :
       /\ two_player = b.two_player
       /\ player_color = b.player_color
       /\ flipped = b.flipped
  /\ selected_piece = None
  /\ promotion_square = None
  /\ winner = None
  /\ draw = FALSE
  \* if game.turn == !player_color && !two_player { sf.recommend_move(game, limits); }
  /\ sender = IF DefaultGame.turn = Not(player_color) /\ ~two_player
              THEN <<Message(1, DefaultGame)>> ELSE << >>
  /\ sent = Len(sender)
  /\ receiver = << >>
  /\ worker = None
  /\ taken = << >>
  /\ got = None

\* one iteration of the loop of play_game: a frame, with the left button
\* pressed on a square or not pressed, in a build with or without overflow
\* checks
Frame ==
  /\ res # Panic
  /\ \E mouse \in {None} \cup {Some(c) : c \in Clicks}, overflow_checks \in BOOLEAN :
       \E t \in {engine_turn(Now, overflow_checks)} :
         \E u \in {after_engine_turn(t, mouse, overflow_checks)} :
           SetSession(u)
  /\ UNCHANGED <<free, input, decoded, drawn, two_player, player_color, flipped, worker>>

\* the worker: `while let Ok(message) = rx.recv()`
Receive ==
  /\ res # Panic
  /\ worker = None
  /\ sender # << >>
  /\ worker' = Some(Head(sender))
  /\ sender' = Tail(sender)
  /\ UNCHANGED <<board, en_passant, castle, turn, hm_clock, fm_clock, res, prev, last,
                 hist, free, input, decoded, drawn, played, two_player, player_color,
                 flipped, selected_piece, promotion_square, winner, draw, receiver,
                 sent, taken, got>>

\* the worker: uci.recommend_move returns and s2.send(..) passes the result on
Respond ==
  /\ res # Panic
  /\ worker # None
  /\ \E ret \in Answers(worker[1].game) :
       receiver' = Append(receiver, ResultMessage(worker[1].id, ret))
  /\ worker' = None
  /\ UNCHANGED <<board, en_passant, castle, turn, hm_clock, fm_clock, res, prev, last,
                 hist, free, input, decoded, drawn, played, two_player, player_color,
                 flipped, selected_piece, promotion_square, winner, draw, sender,
                 sent, taken, got>>

PlayNext == Frame \/ Receive \/ Respond

PlaySpec == PlayInit /\ [][PlayNext]_vars

\* the worker thread is scheduled: a message in its channel is received, and
\* the engine's answer is passed on
PlayFairSpec == PlaySpec /\ WF_vars(Receive) /\ WF_vars(Respond)

----------------------------------------------------------------------------
(* Chess geometry, stated on the board alone, for the properties below      *)

File(s) == s % 8
Rank(s) == s \div 8
Dist(a, b) ==
  IF Abs(File(a) - File(b)) > Abs(Rank(a) - Rank(b))
  THEN Abs(File(a) - File(b)) ELSE Abs(Rank(a) - Rank(b))

\* a and b lie on one rank, file or diagonal
OnLine(a, b) ==
  /\ a # b
  /\ \/ File(a) = File(b) \/ Rank(a) = Rank(b)
     \/ Abs(File(a) - File(b)) = Abs(Rank(a) - Rank(b))

\* the squares strictly between a and b on their line
Between(a, b) ==
  {s \in Squares : /\ s # a /\ s # b /\ OnLine(a, s) /\ OnLine(s, b)
                    /\ Dist(a, s) + Dist(s, b) = Dist(a, b)
                    /\ (File(s) - File(a)) * (Rank(b) - Rank(a))
                         = (Rank(s) - Rank(a)) * (File(b) - File(a))}

Clear(b, a, t) == \A s \in Between(a, t) : b[s] = Empty

\* the piece on square a of board b attacks square t
Attacks(b, a, t) ==
  LET p == b[a]
      df == File(t) - File(a)
      dr == Rank(t) - Rank(a)
      diagonal == Abs(df) = Abs(dr)
      straight == df = 0 \/ dr = 0
  IN /\ a # t
     /\ CASE p = "WPawn" -> dr = 1 /\ Abs(df) = 1
          [] p = "BPawn" -> dr = -1 /\ Abs(df) = 1
          [] IsKnight(p) -> {Abs(df), Abs(dr)} = {1, 2}
          [] p \in {"WBishop", "BBishop"} -> diagonal /\ Clear(b, a, t)
          [] p \in {"WRook", "BRook"} -> straight /\ Clear(b, a, t)
          [] p \in {"WQueen", "BQueen"} -> (diagonal \/ straight) /\ Clear(b, a, t)
          [] IsKing(p) -> Abs(df) <= 1 /\ Abs(dr) <= 1
          [] OTHER -> FALSE

Owned(b, c) == {s \in Squares : b[s] # Empty /\ color(b[s]) = c}
KingSquares(b, c) == {s \in Owned(b, c) : IsKing(b[s])}

\* square t is attacked by a piece of side c, of any kind
Attacked(b, t, c) == \E a \in Owned(b, c) : Attacks(b, a, t)

\* a king of side c is attacked by an enemy pawn, knight, bishop, rook or
\* queen: check as the engine defines it, the enemy king not being counted
InCheck(b, c) ==
  \E k \in KingSquares(b, c), a \in Owned(b, Not(c)) :
    ~IsKing(b[a]) /\ Attacks(b, a, k)

OwnSquares == Owned(board, turn)

\* no call of is_legal_move in position g returns a result of the Valid family
NoLegalMove(g) ==
  \A from \in Squares, to \in Squares, promotion \in PromotionInputs :
    ~is_ok(is_legal_move(g, from, to, promotion))

----------------------------------------------------------------------------
(* C1                                                                       *)

\* C1: after every move accepted by move_checked, in any game from the
\* standard initial position, the side that just moved is not in check, and
\* is_legal_move returns Illegal for every pseudo-legal move that would leave
\* the mover's own king in check; the side not to move is never in check.
C1_MoverNotInCheck ==
  /\ ~InCheck(board, Not(turn))
  /\ \A from \in OwnSquares, to \in Squares, promotion \in PromotionInputs :
       (/\ is_legal_checkless(Game, from, to, promotion, TRUE) = "Valid"
        /\ InCheck(move_unchecked(Game, from, to, promotion).board, turn))
       => is_legal_move(Game, from, to, promotion) = "Illegal"

\* a move was accepted, and in the position reached a pseudo-legal move that
\* would leave the mover's king in check is refused as Illegal
C1_Witness ==
  /\ res \in OkResults
  /\ \E from \in OwnSquares, to \in Squares :
       /\ is_legal_checkless(Game, from, to, "Queen", TRUE) = "Valid"
       /\ InCheck(move_unchecked(Game, from, to, "Queen").board, turn)
       /\ is_legal_move(Game, from, to, "Queen") = "Illegal"

----------------------------------------------------------------------------
(* C2                                                                       *)

\* C2: in every position with one king per side where the player to move is
\* in check, is_in_checkmate of that player is true if and only if the player
\* has no legal move at all, whatever piece gives the check and on whatever
\* line; so is_legal_move returns Checkmate only when the opponent has no
\* legal reply.
C2_CheckmateIffNoLegalMove ==
  /\ is_in_check(Game, turn) => (is_in_checkmate(Game, turn) <=> NoLegalMove(Game))
  /\ res = "Checkmate" => NoLegalMove(Game)

----------------------------------------------------------------------------
(* C3                                                                       *)

\* the square of the pawn whose double step skipped square t, the capturing
\* side being c: t + 8 when White made the double step, t - 8 when Black did
DoubleStepped(t, c) == IF c = Black THEN t + 8 ELSE t - 8

\* the pawns of the side to move that stand beside the double-stepped pawn
PawnsBeside(t) ==
  {p \in OwnSquares : /\ IsPawn(board[p])
                       /\ Rank(p) = Rank(DoubleStepped(t, turn))
                       /\ Abs(File(p) - File(t)) = 1}

\* the move just accepted was a pawn move onto the en-passant square
EnPassantTaken ==
  /\ res \in OkResults
  /\ IsPawn(prev.board[last[1]])
  /\ prev.en_passant = Some(last[2])

\* C3: en passant, for either colour: right after a pawn double-step an enemy
\* pawn beside the double-stepped pawn may move diagonally onto the skipped
\* square, and move_checked then puts the capturing pawn on the skipped
\* square and empties the square of the double-stepped pawn (target + 8 when
\* White double-stepped, target - 8 when Black did), so that the number of
\* pieces on the board drops by exactly one.
C3_EnPassantCapture ==
  /\ en_passant # None =>
       \A p \in PawnsBeside(en_passant[1]) :
         is_legal_checkless(Game, p, en_passant[1], NoPromotion, TRUE) = "Valid"
  /\ EnPassantTaken =>
       /\ prev.board[last[2]] = Empty
       /\ board[last[2]] = prev.board[last[1]]
       /\ board[DoubleStepped(last[2], prev.turn)] = Empty
       /\ Cardinality(Owned(board, White) \cup Owned(board, Black))
            = Cardinality(Owned(prev.board, White) \cup Owned(prev.board, Black)) - 1

----------------------------------------------------------------------------
(* C4, C5                                                                   *)

\* C4: in every position reached from the standard initial position by
\* move_checked and for every square loc, all_legal_moves(loc) holds only
\* squares to for which is_legal_move(loc, to, Some(Queen)) returns Valid,
\* Check, Checkmate, Stalemate or Draw, and it is empty when loc is empty or
\* holds a piece of the side that is not to move.
C4_GeneratedMovesAreLegal ==
  \A loc \in Squares :
    /\ \A to \in all_legal_moves(Game, loc) :
         is_ok(is_legal_move(Game, loc, to, "Queen"))
    /\ loc \notin OwnSquares => all_legal_moves(Game, loc) = {}

\* C5: all_legal_moves is complete: in every position, the side to move in
\* check or not, and for every square loc holding a piece of the side to move,
\* all_legal_moves(loc) holds every square to for which
\* is_legal_move(loc, to, Some(Queen)) returns a result of the Valid family,
\* the blocking and capturing moves of a bishop, rook or queen beyond a nearer
\* square it may not move to included.
C5_GeneratedMovesComplete ==
  \A loc \in OwnSquares, to \in Squares :
    is_ok(is_legal_move(Game, loc, to, "Queen")) => to \in all_legal_moves(Game, loc)

----------------------------------------------------------------------------
(* C6                                                                       *)

\* the home square of the king of side c
KingHome(c) == IF c = White THEN 4 ELSE 60

\* C6: in every reachable position, a king's kingside castling move is
\* rejected as Illegal by is_legal_move whenever a square between the king and
\* the rook is attacked by any enemy piece, even when the king's destination
\* square itself is not attacked.
C6_NoCastlingThroughAttack ==
  LET k == KingHome(turn)
  IN (/\ k \in KingSquares(board, turn)
      /\ \E s \in {k + 1, k + 2} : Attacked(board, s, Not(turn)))
     => \A promotion \in PromotionInputs :
          is_legal_move(Game, k, k + 2, promotion) = "Illegal"

----------------------------------------------------------------------------
(* C7                                                                       *)

\* C7: for every legal move, is_legal_move returns Stalemate if and only if
\* the resulting position is not a draw by material or by the 50-move clock,
\* the opponent is not in check, and the opponent has no move for which
\* is_legal_move would return a result of the Valid family.
C7_StalemateIff ==
  res \in OkResults =>
    (res = "Stalemate" <=> (/\ ~is_draw(Game)
                            /\ ~is_in_check(Game, turn)
                            /\ NoLegalMove(Game)))

----------------------------------------------------------------------------
(* C8                                                                       *)

\* C8: for either side to move, is_legal_move returns Illegal (never a result
\* of the Valid family and never a failure of the evaluator) for every move
\* whose destination square holds the enemy king, and move_checked therefore
\* never removes a king from the board.
C8_KingNeverCaptured ==
  /\ \A from \in OwnSquares, to \in KingSquares(board, Not(turn)),
        promotion \in PromotionInputs :
       is_legal_move(Game, from, to, promotion) = "Illegal"
  /\ \A c \in Color : KingSquares(board, c) # {}

----------------------------------------------------------------------------
(* C9                                                                       *)

\* MoveResult
MoveResult == OkResults \cup Rejected

\* C9: is_legal_move returns Impossible if and only if the origin or the
\* destination index is outside 0..63, or the origin square is empty, or it
\* holds a piece of the side that is not to move; in every other case it
\* returns one of the seven other outcomes.
C9_ImpossibleIff ==
  /\ \A from \in Inputs, to \in Inputs :
       (from \notin Squares \/ to \notin Squares \/ from \notin OwnSquares)
       => \A promotion \in PromotionInputs :
            is_legal_move(Game, from, to, promotion) = "Impossible"
  /\ \A from \in OwnSquares, to \in Squares, promotion \in PromotionInputs :
       is_legal_move(Game, from, to, promotion) \in MoveResult \ {"Impossible"}

----------------------------------------------------------------------------
(* C10                                                                      *)

\* the farthest rank of side c
FarthestRank(c) == IF c = White THEN 7 ELSE 0

\* from -> to is a move of a pawn of the side to move onto the farthest rank
PawnToFarthestRank(from, to) ==
  /\ from \in OwnSquares /\ to \in Squares
  /\ IsPawn(board[from])
  /\ Rank(to) = FarthestRank(turn)

\* C10 as stated: is_legal_move(from, to, None) returns MissingPromotion only
\* for a pawn move to the farthest rank that is otherwise legal, that is, only
\* when is_legal_move(from, to, Some(p)) returns a result of the Valid family
\* for a promotion p; a pawn move to the farthest rank that would leave the
\* mover's own king in check is reported as Illegal, not MissingPromotion.
C10_MissingPromotionOnlyIfLegal ==
  \A from \in Inputs, to \in Inputs :
    is_legal_move(Game, from, to, NoPromotion) = "MissingPromotion"
    => /\ PawnToFarthestRank(from, to)
       /\ \E p \in Promotion : is_ok(is_legal_move(Game, from, to, p))

\* C10: is_legal_move(from, to, None) returns MissingPromotion only for a
\* pawn move to the farthest rank that is pseudo-legal: with any promotion p,
\* is_legal_move(from, to, Some(p)) returns a result of the Valid family, or
\* Illegal because the move leaves the mover's own king in check; such a move
\* into check is reported as MissingPromotion when no promotion is given.
C10_MissingPromotionPseudoLegal ==
  \A from \in Inputs, to \in Inputs :
    LET r == is_legal_move(Game, from, to, NoPromotion)
        into_check(p) ==
          /\ is_legal_checkless(Game, from, to, p, TRUE) = "Valid"
          /\ InCheck(move_unchecked(Game, from, to, p).board, turn)
          /\ is_legal_move(Game, from, to, p) = "Illegal"
    IN /\ r = "MissingPromotion" =>
            /\ PawnToFarthestRank(from, to)
            /\ \A p \in Promotion :
                 is_ok(is_legal_move(Game, from, to, p)) \/ into_check(p)
       /\ (PawnToFarthestRank(from, to) /\ \E p \in Promotion : into_check(p))
            => r = "MissingPromotion"

\* a pawn stands before the farthest rank with its king in check: its
\* capture onto that rank is MissingPromotion without a promotion and Illegal
\* with one, while another pawn move of the game was accepted before
C10_Witness ==
  /\ res \in OkResults
  /\ \E from \in OwnSquares, to \in Squares :
       /\ is_legal_move(Game, from, to, NoPromotion) = "MissingPromotion"
       /\ is_legal_move(Game, from, to, "Queen") = "Illegal"

----------------------------------------------------------------------------
(* C11                                                                      *)

\* the pieces on board b
Pieces(b) == Owned(b, White) \cup Owned(b, Black)

\* the move just applied was a capture: its destination was occupied, or a
\* piece disappeared from the board (en passant)
WasCapture ==
  \/ prev.board[last[2]] # Empty
  \/ Cardinality(Pieces(board)) < Cardinality(Pieces(prev.board))

WasPawnMove == IsPawn(prev.board[last[1]])

\* C11: after every move applied by move_checked, in a sequence of moves of
\* any length, the half-move clock is 0 if the move was a pawn move or a
\* capture (en passant included) and otherwise exactly one greater than its
\* value before the move.
C11_HalfMoveClock ==
  res \in OkResults =>
    hm_clock = (IF WasPawnMove \/ WasCapture THEN 0 ELSE prev.hm_clock + 1)

----------------------------------------------------------------------------
(* C12                                                                      *)

\* C12: castling rights only shrink: along any sequence of move_checked
\* calls the set of castling rights after a move is a subset of the set
\* before it, so a revoked right is never present again.
C12_CastleOnlyShrinks == [][castle' \subseteq castle]_vars

\* the move just applied revoked a castling right
C12_Witness == res \in OkResults /\ castle # prev.castle /\ castle \subseteq prev.castle

----------------------------------------------------------------------------
(* C13                                                                      *)

\* the squares of king and rook that a castling right stands for
CastleHome(flag) ==
  CASE flag = "WK" -> [king |-> 4, rook |-> 7, k |-> "WKing", r |-> "WRook"]
    [] flag = "WQ" -> [king |-> 4, rook |-> 0, k |-> "WKing", r |-> "WRook"]
    [] flag = "BK" -> [king |-> 60, rook |-> 63, k |-> "BKing", r |-> "BRook"]
    [] OTHER       -> [king |-> 60, rook |-> 56, k |-> "BKing", r |-> "BRook"]

\* the move just applied moved a king two files along its rank
WasCastling ==
  /\ IsKing(prev.board[last[1]])
  /\ Abs(File(last[2]) - File(last[1])) = 2

\* C13: in every position reached from the standard initial position by
\* move_checked, a castling right is present only if the king of that colour
\* stands on its home square and a rook of that colour on the corresponding
\* corner, so that an accepted castling move always finds a rook to relocate.
C13_RightsNeedKingAndRook ==
  /\ \A flag \in castle :
       /\ board[CastleHome(flag).king] = CastleHome(flag).k
       /\ board[CastleHome(flag).rook] = CastleHome(flag).r
  /\ (res \in OkResults /\ WasCastling) =>
       LET rook_to == (last[1] + last[2]) \div 2
       IN /\ board[rook_to] # Empty
          /\ board[rook_to] \in {"WRook", "BRook"}
          /\ color(board[rook_to]) = prev.turn
          /\ board[last[2]] = prev.board[last[1]]

\* a rook was just taken on its corner with the right of that corner still
\* present, and the right is gone
C13_Witness ==
  /\ res \in OkResults
  /\ \E flag \in prev.castle \ castle :
       /\ last[2] = CastleHome(flag).rook
       /\ prev.board[last[2]] = CastleHome(flag).r
       /\ board[CastleHome(flag).king] = CastleHome(flag).k

----------------------------------------------------------------------------
(* C14                                                                      *)

\* the rank on which the pawns of side c start
PawnHomeRank(c) == IF c = White THEN 1 ELSE 6

\* the move just applied was a pawn double-step from its home rank
WasDoubleStep ==
  /\ WasPawnMove
  /\ Rank(last[1]) = PawnHomeRank(prev.turn)
  /\ File(last[2]) = File(last[1])
  /\ Abs(Rank(last[2]) - Rank(last[1])) = 2

\* C14: after every move applied by move_checked the en-passant target is
\* present if and only if that move was a pawn double-step from its home
\* rank, and it is then the square the pawn skipped; after any other move it
\* is absent, so a target is there for exactly one reply.
C14_EnPassantTarget ==
  res \in OkResults =>
    /\ en_passant # None <=> WasDoubleStep
    /\ en_passant # None => en_passant = Some((last[1] + last[2]) \div 2)

\* a target was offered by the move before, and the reply just applied, not
\* a double step, has cleared it
C14_Witness ==
  /\ res \in OkResults
  /\ prev.en_passant # None
  /\ ~WasDoubleStep
  /\ en_passant = None

----------------------------------------------------------------------------
(* C15                                                                      *)

\* the positions in which a call of freely chosen arguments is made: the
\* last position of each game of the book
AtFreeCall == hist \in Book /\ ~free

\* C15: when move_checked returns Illegal, Impossible or MissingPromotion,
\* the Game (board, side to move, castling rights, en-passant target, both
\* clocks) is exactly as before the call.  (is_legal_move, all_legal_moves,
\* is_in_check, is_in_checkmate, is_stalemate and is_draw take &self and are
\* functions of the Game here: they have no Game to change.)
C15_RefusedCallChangesNothing ==
  AtFreeCall =>
    \A from \in Inputs, to \in Inputs, promotion \in PromotionInputs :
      is_legal_move(Game, from, to, promotion) \in Rejected
      => move_checked(Game, from, to, promotion) = Game

\* a position where calls of all three refused kinds exist, one of them a
\* pawn move onto the farthest rank without a promotion
C15_Witness ==
  /\ AtFreeCall
  /\ \A r \in Rejected :
       \E from \in Inputs, to \in Inputs :
         /\ is_legal_move(Game, from, to, NoPromotion) = r
         /\ move_checked(Game, from, to, NoPromotion) = Game

----------------------------------------------------------------------------
(* C16                                                                      *)

\* C16: FEN round trip: for every position g reached from the standard
\* initial position by move_checked, from_fen(as_fen(g)) succeeds and yields
\* a Game equal to g in board, side to move, castling rights, en-passant
\* target, half-move clock and full-move counter.
C16_FenRoundTrip ==
  \A overflow_checks \in BOOLEAN :
    from_fen(as_fen(Game), overflow_checks) = Some(Game)

\* a position with an en-passant target and castling rights lost, whose
\* record decodes to it
C16_Witness ==
  /\ res \in OkResults
  /\ en_passant # None
  /\ castle # CastleALL
  /\ from_fen(as_fen(Game), TRUE) = Some(Game)

----------------------------------------------------------------------------
(* C17                                                                      *)

PieceLetters == {"p", "n", "b", "r", "q", "k", "P", "N", "B", "R", "Q", "K"}

\* the number of squares a row of a board field describes
RECURSIVE RowSquares(_)
RowSquares(row) ==
  IF row = << >> THEN 0
  ELSE (IF is_ascii_digit(Head(row)) THEN DigitValue(Head(row)) ELSE 1)
         + RowSquares(Tail(row))

AllIn(s, chars) == \A i \in 1 .. Len(s) : s[i] \in chars
IsNumber(s) == s # << >> /\ \A i \in 1 .. Len(s) : is_ascii_digit(s[i])

\* a record with all six fields, each as the FEN format has it
WellFormed(record) ==
  LET f == split(record, " ")
      rows == split(f[1], "/")
  IN /\ Len(f) = 6
     /\ Len(rows) = 8
     /\ \A i \in 1 .. 8 :
          /\ AllIn(rows[i], PieceLetters \cup {"1", "2", "3", "4", "5", "6", "7", "8"})
          /\ RowSquares(rows[i]) = 8
     /\ f[2] \in {<<"w">>, <<"b">>}
     /\ f[3] = <<"-">> \/ (f[3] # << >> /\ AllIn(f[3], {"K", "Q", "k", "q"}))
     /\ \/ f[4] = <<"-">>
        \/ /\ Len(f[4]) = 2
           /\ f[4][1] \in {"a", "b", "c", "d", "e", "f", "g", "h"}
           /\ f[4][2] \in {"3", "6"}
     /\ IsNumber(f[5])
     /\ IsNumber(f[6])

\* C17: from_fen yields no result (never a partly filled or silently altered
\* position, never a crash) whenever a field of the record is absent or
\* malformed: a board field that does not describe exactly 64 squares, a board
\* character that is no piece letter, digit or '/', a side to move other than
\* w or b, a castling field with characters other than K, Q, k, q or -, an
\* en-passant field that is neither - nor a square of rank 3 or 6, or a clock
\* that is no number.
C17_MalformedRecordRefused ==
  (decoded # NotCalled /\ ~WellFormed(input)) => (decoded # Panic /\ decoded = None)

----------------------------------------------------------------------------
(* C18                                                                      *)

\* the (origin, destination) pairs all_legal_moves gives over the 64 squares
GeneratedMoves ==
  UNION {{<<loc, to>> : to \in all_legal_moves(Game, loc)} : loc \in Squares}

\* the 20 first moves of chess: each pawn one or two squares, each knight to
\* the third rank
FirstMoves ==
  {<<loc, loc + d>> : loc \in 8 .. 15, d \in {8, 16}}
    \cup {<<1, 16>>, <<1, 18>>, <<6, 21>>, <<6, 23>>}

\* C18: in the standard initial position the union of all_legal_moves over the
\* 64 squares has exactly 20 (origin, destination) pairs, 16 pawn moves and 4
\* knight moves, and is_legal_move returns Valid for each of them.
C18_InitialMoves ==
  Game = DefaultGame =>
    /\ Cardinality(GeneratedMoves) = 20
    /\ Cardinality({m \in GeneratedMoves : board[m[1]] = "WPawn"}) = 16
    /\ Cardinality({m \in GeneratedMoves : board[m[1]] = "WKnight"}) = 4
    /\ GeneratedMoves = FirstMoves
    /\ \A m \in GeneratedMoves : \A promotion \in PromotionInputs :
         is_legal_move(Game, m[1], m[2], promotion) = "Valid"

C18_Witness ==
  /\ Game = DefaultGame
  /\ hist = << >>
  /\ Cardinality(GeneratedMoves) = 20
  /\ is_legal_move(Game, 12, 28, NoPromotion) = "Valid"

----------------------------------------------------------------------------
(* C19                                                                      *)

\* C19: the Scholar's-mate sequence played from the initial position through
\* move_checked (12->28, 52->36, 3->39, 57->42, 5->26, 62->45, 39->53) has
\* every move accepted, the last call returns Checkmate, and afterwards
\* is_in_checkmate(Black) is true.
C19_ScholarsMate ==
  /\ \A i \in 1 .. Len(ScholarsMate) :
       (~free /\ hist = SubSeq(ScholarsMate, 1, i - 1)) =>
         LET m == ScholarsMate[i]
         IN /\ is_ok(is_legal_move(Game, m[1], m[2], m[3]))
            /\ move_checked(Game, m[1], m[2], m[3]) = move_unchecked(Game, m[1], m[2], m[3])
            /\ i = Len(ScholarsMate) => is_legal_move(Game, m[1], m[2], m[3]) = "Checkmate"
  /\ (~free /\ hist = ScholarsMate) =>
       /\ res = "Checkmate"
       /\ last = <<39, 53>>
       /\ is_in_checkmate(Game, "Black")

C19_Witness ==
  /\ ~free
  /\ hist = ScholarsMate
  /\ res = "Checkmate"
  /\ board[53] = "WQueen"
  /\ is_in_checkmate(Game, "Black")

----------------------------------------------------------------------------
(* C20                                                                      *)

OnBoard == {p \in Squares : board[p] # Empty}
OthersOnBoard == {p \in OnBoard : board[p] \notin {"WKing", "BKing"}}
OneKingEach ==
  /\ Cardinality({p \in Squares : board[p] = "WKing"}) = 1
  /\ Cardinality({p \in Squares : board[p] = "BKing"}) = 1

\* too little material to mate, as the claim lists it
DeadMaterial ==
  \/ Cardinality(OnBoard) = 2
  \/ /\ Cardinality(OnBoard) = 3
     /\ \A p \in OthersOnBoard :
          board[p] \in {"WKnight", "BKnight", "WBishop", "BBishop"}
  \/ /\ Cardinality(OnBoard) = 4
     /\ \A p \in OthersOnBoard : board[p] \in {"WBishop", "BBishop"}
     /\ \E p, q \in OthersOnBoard :
          /\ board[p] = "WBishop" /\ board[q] = "BBishop"
          /\ p % 2 = q % 2

----------------------------------------------------------------------------
(* C21                                                                      *)

\* C21: is_legal_move returns Draw for every legal move after which the
\* half-move clock of the resulting position is at least 100, and is_draw()
\* is true in every position reachable by move_checked whose half-move clock
\* is at least 100.
C21_FiftyMoveRule ==
  /\ (res \in OkResults /\ hm_clock >= 100) => res = "Draw"
  /\ hm_clock >= 100 => is_draw(Game)

----------------------------------------------------------------------------
(* C22                                                                      *)

\* C22: draw detection comes first in is_legal_move: whenever the position
\* resulting from a legal move satisfies is_draw(), the outcome is Draw, also
\* when the opponent has no legal reply or is in check; Stalemate, Checkmate
\* and Check are returned only for positions that are not draws.
C22_DrawFirst ==
  res \in OkResults =>
    /\ is_draw(Game) => res = "Draw"
    /\ res \in {"Stalemate", "Checkmate", "Check"} => ~is_draw(Game)

C22_Witness ==
  /\ res = "Draw"
  /\ is_draw(Game)
  /\ is_in_check(Game, turn)

----------------------------------------------------------------------------
(* C23                                                                      *)

\* the castling right of side c towards d (2 the king side, -2 the queen side)
CastleRight(c, d) ==
  IF c = White THEN (IF d = 2 THEN "WK" ELSE "WQ")
  ELSE (IF d = 2 THEN "BK" ELSE "BQ")

\* the squares strictly between the home square of c's king and the rook's
\* corner: two on the king side, three on the queen side
CastleBetween(c, d) ==
  IF d = 2 THEN {KingHome(c) + 1, KingHome(c) + 2}
  ELSE {KingHome(c) - 1, KingHome(c) - 2, KingHome(c) - 3}

\* the mover's king moves from k two files along its rank while the mover is
\* in check, the right is revoked, or a square between king and rook is occupied
CastlingBarred(k, d) ==
  /\ k + d \in Squares
  /\ Rank(k + d) = Rank(k)
  /\ \/ InCheck(board, turn)
     \/ CastleRight(turn, d) \notin castle
     \/ \E s \in CastleBetween(turn, d) : board[s] # Empty

\* C23: a castling move (the king moving two files along its rank) is never
\* accepted by is_legal_move nor offered by all_legal_moves when the mover is
\* in check, when the castling right has been revoked, or when a square
\* strictly between the king and the rook is occupied.
C23_CastlingBarred ==
  \A k \in KingSquares(board, turn), d \in {2, -2} :
    CastlingBarred(k, d) =>
      /\ \A promotion \in PromotionInputs :
           ~is_ok(is_legal_move(Game, k, k + d, promotion))
      /\ k + d \notin all_legal_moves(Game, k)

C23_Witness ==
  /\ hist = CastleInCheck
  /\ ~free
  /\ InCheck(board, White)
  /\ "WK" \in castle
  /\ board[5] = Empty /\ board[6] = Empty
  /\ is_legal_move(Game, 4, 6, NoPromotion) = "Illegal"
  /\ 6 \notin all_legal_moves(Game, 4)

----------------------------------------------------------------------------
(* C24                                                                      *)

\* C24: applying an accepted castling move puts the king on its destination
\* two files from home, moves the rook of the same colour from its corner
\* (origin+3 king side, origin-4 queen side) to the square the king crossed
\* (destination-1 king side, destination+1 queen side), leaves the king's and
\* the rook's origin squares empty, and changes no other square.
C24_CastlingApplied ==
  (res \in OkResults /\ WasCastling) =>
    LET from == last[1]
        to == last[2]
        king_side == File(to) > File(from)
        corner == IF king_side THEN from + 3 ELSE from - 4
        crossed == IF king_side THEN to - 1 ELSE to + 1
        rook == IF prev.turn = White THEN "WRook" ELSE "BRook"
    IN /\ from = KingHome(prev.turn)
       /\ Abs(to - from) = 2
       /\ corner \in {0, 7, 56, 63}
       /\ prev.board[corner] = rook
       /\ board[to] = prev.board[from]
       /\ board[crossed] = rook
       /\ board[from] = Empty
       /\ board[corner] = Empty
       /\ \A s \in Squares \ {from, to, corner, crossed} : board[s] = prev.board[s]

\* both sides have castled on the queen side
C24_Witness ==
  /\ res \in OkResults
  /\ WasCastling
  /\ last = <<60, 58>>
  /\ board[58] = "BKing" /\ board[59] = "BRook" /\ board[56] = Empty /\ board[60] = Empty
  /\ board[2] = "WKing" /\ board[3] = "WRook" /\ board[0] = Empty /\ board[4] = Empty

----------------------------------------------------------------------------
(* C25                                                                      *)

\* the piece of type p and colour c
Promoted(p, c) ==
  CASE p = "Knight" -> IF c = White THEN "WKnight" ELSE "BKnight"
    [] p = "Bishop" -> IF c = White THEN "WBishop" ELSE "BBishop"
    [] p = "Rook" -> IF c = White THEN "WRook" ELSE "BRook"
    [] p = "Queen" -> IF c = White THEN "WQueen" ELSE "BQueen"

\* from -> to is a move of a pawn onto the first or the last rank
PawnToEdgeRank(from, to) ==
  /\ board[from] \in {"WPawn", "BPawn"}
  /\ Rank(to) \in {0, 7}

\* C25: when move_checked applies a pawn move to the farthest rank with
\* promotion choice p, the destination square afterwards holds the piece of
\* type p in the mover's colour and the origin square is empty; a supplied
\* promotion choice has no effect on any move that is not a pawn move to the
\* first or last rank (looked at in the positions in which the caller's move
\* is free).
C25_Promotion ==
  /\ \A from \in OwnSquares, to \in Squares, p \in Promotion :
       (PawnToFarthestRank(from, to) /\ is_ok(is_legal_move(Game, from, to, p))) =>
         LET after == move_checked(Game, from, to, p)
         IN /\ after.board[to] = Promoted(p, turn)
            /\ after.board[from] = Empty
  /\ (res \in OkResults /\ WasPawnMove /\ Rank(last[2]) = FarthestRank(prev.turn)) =>
       /\ board[last[2]] \in {Promoted(p, prev.turn) : p \in Promotion}
       /\ board[last[1]] = Empty
  /\ AtFreeCall =>
       \A from \in Inputs, to \in Inputs :
         ~(from \in Squares /\ to \in Squares /\ PawnToEdgeRank(from, to)) =>
           LET result == is_legal_move(Game, from, to, NoPromotion)
               after == move_checked(Game, from, to, NoPromotion)
           IN \A p \in Promotion :
                /\ is_legal_move(Game, from, to, p) = result
                /\ move_checked(Game, from, to, p) = after

\* a pawn has just been promoted to a knight
C25_Witness ==
  /\ res \in OkResults
  /\ WasPawnMove
  /\ Rank(last[2]) = FarthestRank(prev.turn)
  /\ board[last[2]] = Promoted("Knight", prev.turn)
  /\ board[last[1]] = Empty

----------------------------------------------------------------------------
(* C26                                                                      *)

\* C26: along any sequence of moves applied by move_checked from the standard
\* initial position the side to move alternates strictly (White, Black,
\* White, ...) and the full-move counter equals 1 plus the number of moves
\* Black has made: it increases by one after each Black move and is unchanged
\* by each White move.
C26_TurnsAndFullMoves ==
  /\ turn = (IF played % 2 = 0 THEN White ELSE Black)
  /\ fm_clock = 1 + played \div 2
  /\ res \in OkResults =>
       /\ turn = Not(prev.turn)
       /\ fm_clock = (IF prev.turn = Black THEN prev.fm_clock + 1 ELSE prev.fm_clock)

----------------------------------------------------------------------------
(* C27                                                                      *)

\* the kinds of the enemy pieces that attack the king of side c
Checkers(c) ==
  {board[a] : a \in {a \in Owned(board, Not(c)) :
                       \E k \in KingSquares(board, c) : Attacks(board, a, k)}}

\* C27: for every position with one king per side and either player p,
\* is_in_check(p) is true if and only if p's king square is attacked by an
\* enemy pawn (one step diagonally forward for that pawn), an enemy knight, or
\* an enemy bishop, rook or queen along a line with no piece between it and
\* the king; the enemy king is never counted as an attacker.
C27_InCheckIff ==
  OneKingEach =>
    \A p \in {White, Black} :
      is_in_check(Game, p) <=> (Checkers(p) \ {"WKing", "BKing"} # {})

\* the side to move is in check from a pawn
C27_Witness ==
  /\ OneKingEach
  /\ is_in_check(Game, turn)
  /\ Checkers(turn) \cap {"WPawn", "BPawn"} # {}

----------------------------------------------------------------------------
(* C28                                                                      *)

\* the pawn on `from`, of the side to move, may go to `to` by the rules the
\* claim lists
PawnMayGo(from, to) ==
  LET df == File(to) - File(from)
      dr == Rank(to) - Rank(from)
      fwd == IF turn = White THEN 1 ELSE -1
  IN \/ df = 0 /\ dr = fwd /\ board[to] = Empty
     \/ /\ df = 0 /\ dr = 2 * fwd
        /\ Rank(from) = PawnHomeRank(turn)
        /\ board[from + 8 * fwd] = Empty /\ board[to] = Empty
     \/ /\ Abs(df) = 1 /\ dr = fwd
        /\ board[to] # Empty /\ color(board[to]) # turn
     \/ Abs(df) = 1 /\ dr = fwd /\ en_passant = Some(to)

OwnPawns == {s \in OwnSquares : IsPawn(board[s])}

\* C28: in every reachable position the pseudo-legal evaluator accepts a pawn
\* move of the side to move if and only if the move goes in that pawn's
\* direction and is one step straight onto an empty square, two steps straight
\* from the home rank with the intermediate and the destination square empty,
\* one step diagonally onto a square holding an enemy piece, or one step
\* diagonally onto the current en-passant target.
C28_PawnMoves ==
  \A from \in OwnPawns, to \in Squares :
    (is_legal_checkless(Game, from, to, "Queen", TRUE) = "Valid") <=> PawnMayGo(from, to)

\* a pawn may take en passant, and the evaluator accepts it
C28_Witness ==
  /\ en_passant # None
  /\ \E from \in OwnPawns :
       /\ PawnMayGo(from, en_passant[1])
       /\ is_legal_checkless(Game, from, en_passant[1], "Queen", TRUE) = "Valid"

----------------------------------------------------------------------------
(* C29                                                                      *)

\* the file and rank differences of from -> to fit the way piece p moves
\* (castling is the king's move of two files along the rank from its home)
Fits(p, from, to) ==
  LET df == File(to) - File(from)
      dr == Rank(to) - Rank(from)
      fwd == IF color(p) = White THEN 1 ELSE -1
      diagonal == Abs(df) = Abs(dr) /\ df # 0
      straight == (df = 0) # (dr = 0)
  IN CASE IsPawn(p) -> (Abs(df) <= 1 /\ dr = fwd) \/ (df = 0 /\ dr = 2 * fwd)
       [] IsKnight(p) -> {Abs(df), Abs(dr)} = {1, 2}
       [] p \in {"WBishop", "BBishop"} -> diagonal
       [] p \in {"WRook", "BRook"} -> straight
       [] p \in {"WQueen", "BQueen"} -> diagonal \/ straight
       [] IsKing(p) -> \/ from # to /\ Abs(df) <= 1 /\ Abs(dr) <= 1
                       \/ Abs(df) = 2 /\ dr = 0 /\ from = KingHome(color(p))

\* a piece stands strictly between from and to, which lie on one line
Obstructed(from, to) ==
  OnLine(from, to) /\ \E s \in Between(from, to) : board[s] # Empty

\* C29: a bishop, rook or queen move is Illegal whenever a square strictly
\* between its origin and its destination is occupied, and a move computed
\* from square indices never wraps around a board edge: a move is accepted
\* (by the evaluator, by move_checked, or offered by all_legal_moves) only if
\* the file and rank differences of origin and destination fit the piece's
\* movement pattern.
C29_PathsAndPatterns ==
  /\ \A from \in OwnSquares, to \in Squares :
       /\ (IsSlider(board[from]) /\ Obstructed(from, to)) =>
            \A promotion \in PromotionInputs :
              is_legal_move(Game, from, to, promotion) = "Illegal"
       /\ is_legal_checkless(Game, from, to, "Queen", TRUE) = "Valid" =>
            Fits(board[from], from, to)
  /\ \A from \in OwnSquares : \A to \in all_legal_moves(Game, from) :
       to \in Squares /\ Fits(board[from], from, to)
  /\ res \in OkResults => Fits(prev.board[last[1]], last[1], last[2])

\* a bishop, rook or queen has just moved two squares or more, and a piece
\* of the side to move is obstructed
C29_Witness ==
  /\ res \in OkResults
  /\ IsSlider(prev.board[last[1]])
  /\ Dist(last[1], last[2]) >= 2
  /\ Fits(prev.board[last[1]], last[1], last[2])
  /\ \E from \in OwnSquares, to \in Squares :
       /\ IsSlider(board[from]) /\ Obstructed(from, to) /\ board[to] = Empty
       /\ is_legal_move(Game, from, to, NoPromotion) = "Illegal"

----------------------------------------------------------------------------
(* C30                                                                      *)

EmptySquares == {s \in Squares : board[s] = Empty}

\* C30: applying a move whose origin square is empty (move_unchecked) reports
\* failure and changes nothing: board, side to move, castling rights,
\* en-passant target, half-move clock and full-move counter are all as before.
C30_EmptyOriginNoOp ==
  \A from \in EmptySquares, to \in Inputs, promotion \in PromotionInputs :
    /\ ~moved(Game, from)
    /\ move_unchecked(Game, from, to, promotion) = Game

\* after e2e4 the square e2 is empty, and a move from it is no move
C30_Witness ==
  /\ hist = <<M(12, 28)>>
  /\ 12 \in EmptySquares
  /\ en_passant # None
  /\ ~moved(Game, 12)
  /\ move_unchecked(Game, 12, 20, NoPromotion) = Game

----------------------------------------------------------------------------
(* C33                                                                      *)

\* C33: every position reached from the standard initial position by
\* move_checked holds exactly one white king and exactly one black king, and
\* no call of move_checked dies in find_king(..).unwrap(): the only death
\* the model knows besides that unwrap is the overflow check of the half-move
\* clock, at its largest value.
C33_KingsNeverMissing ==
  /\ OneKingEach
  /\ res = Panic => hm_clock = U8 - 1

----------------------------------------------------------------------------
(* C34                                                                      *)

\* C34: in every position reached from the standard initial position by
\* move_checked the two kings do not stand on adjacent squares.
C34_KingsNeverAdjacent ==
  \A w \in KingSquares(board, White), b \in KingSquares(board, Black) :
    Dist(w, b) > 1

----------------------------------------------------------------------------
(* C35                                                                      *)

\* C35: is_in_checkmate(p) is true only in positions in which is_in_check(p)
\* is true: a player who is not in check is never reported as checkmated.
C35_CheckmateOnlyInCheck ==
  \A p \in Color : is_in_checkmate(Game, p) => is_in_check(Game, p)

----------------------------------------------------------------------------
(* C36                                                                      *)

\* the direction of travel of the pawns of side c, in squares
Forward(c) == IF c = White THEN 8 ELSE -8

\* C36: in every position reached from the standard initial position by
\* move_checked in which an en-passant target is present, the target square
\* is empty, it lies on rank index 2 exactly when Black is to move and on
\* rank index 5 exactly when White is to move, the square behind it (one
\* step against the capturer's direction of travel) holds a pawn of the side
\* that just moved, and the home-rank square that pawn came from (one step
\* farther along the capturer's direction) is empty.
C36_EnPassantTargetShape ==
  en_passant # None =>
    LET t == en_passant[1]
    IN /\ t \in Squares
       /\ board[t] = Empty
       /\ Rank(t) = 2 <=> turn = Black
       /\ Rank(t) = 5 <=> turn = White
       /\ board[t - Forward(turn)] = (IF turn = White THEN "BPawn" ELSE "WPawn")
       /\ board[t + Forward(turn)] = Empty

\* Black has just answered a white move with a double step: the target is on
\* rank index 5, White is to move
C36_Witness ==
  /\ res \in OkResults
  /\ played > 1
  /\ en_passant # None
  /\ turn = White
  /\ Rank(en_passant[1]) = 5
  /\ board[en_passant[1] - 8] = "BPawn"
  /\ board[en_passant[1] + 8] = Empty

----------------------------------------------------------------------------
(* C37                                                                      *)

\* the colour of a square of the chessboard: the parity of file + rank
SquareColour(s) == (File(s) + Rank(s)) % 2

\* the board holds the two kings, a white bishop and a black bishop
KingsAndOppositeBishops ==
  /\ OneKingEach
  /\ Cardinality(OnBoard) = 4
  /\ \E p, q \in OthersOnBoard : board[p] = "WBishop" /\ board[q] = "BBishop"

\* C37: for a position with exactly two kings and two bishops of opposite
\* colours and a half-move clock below 100, is_draw() is true exactly when
\* the two bishops stand on squares of the same colour of the chessboard.
C37_BishopsOnOneColour ==
  (drawn # None /\ KingsAndOppositeBishops /\ hm_clock < 100) =>
    \A p, q \in OthersOnBoard :
      p # q => drawn = Some(SquareColour(p) = SquareColour(q))

----------------------------------------------------------------------------
(* C31                                                                      *)

\* the requests, by number, in the order of their way through ThreadedUci:
\* results returned by try_result, results ready, the request the worker is
\* busy with, requests not yet received
Ids(q) == [i \in 1 .. Len(q) |-> q[i].id]
Pipeline == taken \o Ids(receiver) \o Ids(worker) \o Ids(sender)

\* requests sent and not yet answered
Unanswered == Len(sender) + Len(worker)

----------------------------------------------------------------------------
(* C32                                                                      *)

\* requests sent whose results try_result has not yet returned
Outstanding == Len(sender) + Len(worker) + Len(receiver)

\* C32: in a single-player game at most one request is outstanding at any
\* time: play_game sends no request while an earlier one has been sent and
\* its result has not been taken by try_result.
C32_OneRequestOutstanding ==
  ~two_player => Outstanding <= 1

\* the human has moved, the engine has answered and the result waits for
\* the next frame
C32_Witness ==
  /\ ~two_player
  /\ played > 1
  /\ turn = Not(player_color)
  /\ receiver # << >>
  /\ Outstanding = 1

----------------------------------------------------------------------------
(* C38                                                                      *)

\* winner or draw is set and no promotion chooser is open
GameOver == (winner # None \/ draw) /\ promotion_square = None

\* C38: once the game is over (winner set after a Checkmate, or draw set
\* after a Stalemate or a Draw) the position never changes again and no
\* recommendation request is sent.
C38_NothingAfterTheEnd ==
  [][GameOver => (Game' = Game /\ sent' = sent)]_vars

----------------------------------------------------------------------------
(* C39                                                                      *)

\* C39: in a single-player game, whenever it is the engine's turn and the
\* game is not over (and no promotion chooser is open), a recommendation
\* request is outstanding or its result is waiting to be taken; this holds
\* after every kind of human move, a promotion completed in the chooser
\* included.
C39_EngineAlwaysAsked ==
  (/\ ~two_player
   /\ res # Panic
   /\ turn = Not(player_color)
   /\ winner = None /\ ~draw
   /\ promotion_square = None)
    => Outstanding = 1

====
